---- MODULE Spec2Model ----
(***************************************************************************)
(* A model of the Maths collision library (Nanachii/Maths): the shapes,    *)
(* the linear-probe intersection tests, the static collision tests and the *)
(* swept sphere against an AABB.                                           *)
(*                                                                         *)
(* Numbers.  The library computes in float.  The model computes in exact   *)
(* rational arithmetic: a scalar is a pair <<n, d>> in lowest terms with   *)
(* d > 0.  The three non-finite floats are kept, because the code divides  *)
(* by zero and compares the result: <<1, 0>> is +infinity, <<-1, 0>> is    *)
(* -infinity and <<0, 0>> is NaN (every comparison with it is false).      *)
(* A vector is a triple of scalars, indexed 1..3 for the source's 0..2.    *)
(*                                                                         *)
(* Locals.  A local variable the code computes once and reads several      *)
(* times is the parameter of a local operator (or of the next stage of the *)
(* function), applied once to the value; a loop of the code is a recursive *)
(* operator over the number of passes made.                                *)
(***************************************************************************)
EXTENDS Integers, Sequences, FiniteSets, TLC

VARIABLES
    boxA,       \* AABB: the receiver of AABB::IsColliding / Contains / ClosestPoint
    boxB,       \* AABB: the argument of AABB::IsColliding, the target of a probe or a sweep
    point,      \* Vector3: the argument of Contains / ClosestPoint
    obbA,       \* OBB: the receiver of OBB::IsColliding
    obbB,       \* OBB: the argument of OBB::IsColliding
    ray,        \* Raycast: the ray probe
    seg,        \* Segment: the segment probe
    sphere,     \* Sphere: the target of a probe, or the moving sphere
    speed,      \* Vector3: the displacement of the moving sphere
    hit,        \* Intersection: the p_hit argument of the last call that takes one
    hit2,       \* Intersection: the p_hit argument of the companion call
    ret,        \* what each call returned, by call name (FALSE / Zero before the call)
    region,     \* the branch Sphere::IsMovingSphereColliding took
    line,       \* Line: the receiver of Line::IsIntersecting
    shape,      \* the other shape of a call, tagged with its class: [kind, is]
    rangeA,     \* Range: the receiver of Range::IsOverlapping, or the result of Range::SAT
    rangeB,     \* Range: the argument of Range::IsOverlapping
    pc          \* the set of calls made so far

vars == <<boxA, boxB, point, obbA, obbB, ray, seg, sphere, speed, hit, hit2, ret, region, line, shape, rangeA, rangeB, pc>>

----------------------------------------------------------------------------
(* Scalars *)

Abs(i) == IF i < 0 THEN -i ELSE i

Sign(i) == IF i < 0 THEN -1 ELSE IF i > 0 THEN 1 ELSE 0

RECURSIVE GCD(_, _)
GCD(a, b) == IF b = 0 THEN a ELSE GCD(b, a % b)

\* n/d in lowest terms; x/0 is an infinity or NaN, as in float.
QNorm(n, d) ==
    LET Lowest(g, s) == <<(s * n) \div g, (s * d) \div g>>
    IN  IF d = 0 THEN <<Sign(n), 0>>
        ELSE Lowest(GCD(Abs(n), Abs(d)), IF d < 0 THEN -1 ELSE 1)

QInt(i) == <<i, 1>>

Q0 == QInt(0)
Q1 == QInt(1)
Q2 == QInt(2)

IsNaN(a) == a = <<0, 0>>
IsInf(a) == a[2] = 0 /\ a[1] # 0

QNeg(a) == <<-a[1], a[2]>>

QAdd(a, b) ==
    IF IsNaN(a) \/ IsNaN(b) THEN <<0, 0>>
    ELSE IF IsInf(a) THEN (IF IsInf(b) /\ b # a THEN <<0, 0>> ELSE a)
    ELSE IF IsInf(b) THEN b
    ELSE LET Sum(g) == QNorm(a[1] * (b[2] \div g) + b[1] * (a[2] \div g),
                              (a[2] \div g) * b[2])
         IN  Sum(GCD(a[2], b[2]))

QSub(a, b) == QAdd(a, QNeg(b))

\* the common factors go before the products are formed
QMul(a, b) ==
    IF a[2] = 0 \/ b[2] = 0 THEN <<Sign(a[1]) * Sign(b[1]), 0>>
    ELSE LET Product(g1, g2) ==
                 <<(a[1] \div g1) * (b[1] \div g2), (a[2] \div g2) * (b[2] \div g1)>>
         IN  Product(GCD(Abs(a[1]), b[2]), GCD(Abs(b[1]), a[2]))

QDiv(a, b) ==
    IF IsNaN(a) \/ IsNaN(b) THEN <<0, 0>>
    ELSE IF IsInf(b) THEN (IF IsInf(a) THEN <<0, 0>> ELSE Q0)
    ELSE IF b[1] = 0 THEN <<Sign(a[1]), 0>>
    ELSE QMul(a, <<Sign(b[1]) * b[2], Abs(b[1])>>)

\* -1, 0, 1 for -infinity, finite, +infinity
QRank(a) == IF a[2] = 0 THEN a[1] ELSE 0

QLt(a, b) ==
    IF IsNaN(a) \/ IsNaN(b) THEN FALSE
    ELSE IF a[2] # 0 /\ b[2] # 0
    THEN LET Less(g) == a[1] * (b[2] \div g) < b[1] * (a[2] \div g)
         IN  Less(GCD(a[2], b[2]))
    ELSE QRank(a) < QRank(b)

QGt(a, b) == QLt(b, a)

QLe(a, b) == ~IsNaN(a) /\ ~IsNaN(b) /\ ~QLt(b, a)

QGe(a, b) == QLe(b, a)

\* operator== on floats: NaN differs from everything
QEq(a, b) == ~IsNaN(a) /\ a = b

QAbs(a) == <<Abs(a[1]), a[2]>>

\* the integer square root: the largest r with r * r <= n
RECURSIVE ISqrtIn(_, _, _)
ISqrtIn(n, lo, hi) ==
    IF lo >= hi THEN lo
    ELSE LET mid == (lo + hi + 1) \div 2
         IN  IF mid * mid <= n THEN ISqrtIn(n, mid, hi) ELSE ISqrtIn(n, lo, mid - 1)

ISqrt(n) == ISqrtIn(n, 0, IF n < 46340 THEN n ELSE 46340)

IsSquare(n) == LET RootOf(r) == r * r = n IN RootOf(ISqrt(n))

\* std::sqrt.  Exact where the root is rational; otherwise the root rounded
\* down to a multiple of 1/16, the model's stand-in for float rounding.
QSqrt(a) ==
    IF a[2] = 0 THEN a
    ELSE IF a[1] < 0 THEN <<0, 0>>
    ELSE IF IsSquare(a[1]) /\ IsSquare(a[2]) THEN <<ISqrt(a[1]), ISqrt(a[2])>>
    ELSE QNorm(ISqrt((256 * a[1]) \div a[2]), 16)

\* Utilities.hpp Min / Max
Min(p_num, p_min) == IF QLt(p_num, p_min) THEN p_num ELSE p_min

Max(p_num, p_max) == IF QGt(p_num, p_max) THEN p_num ELSE p_max

\* __FLT_MAX__: the largest finite float.  It is beyond every magnitude of the
\* model and the code only compares it, or squares a difference with it (which
\* overflows to +infinity in float), so +infinity stands for it.
FltMax == <<1, 0>>

\* __FLT_MIN__: the smallest positive normal float, 2^-126.  The code uses it
\* as the start value of a running maximum.  Every scalar of the model is a
\* multiple of a unit far above 2^-126 and the code only compares the running
\* maximum (or a sum with it, which float rounds back to the other term)
\* against such scalars, so each comparison comes out as it does with 0.
FltMin == Q0

----------------------------------------------------------------------------
(* Vector3 *)

Vec(x, y, z) == <<x, y, z>>

VecInt(x, y, z) == <<QInt(x), QInt(y), QInt(z)>>

Zero    == VecInt(0, 0, 0)
One     == VecInt(1, 1, 1)
Right   == VecInt(1, 0, 0)
Up      == VecInt(0, 1, 0)
Forward == VecInt(0, 0, 1)

\* the three members m_x, m_y, m_z of a vector given per axis
Members(f) == <<f[1], f[2], f[3]>>

VAdd(a, b) == Members([i \in 1..3 |-> QAdd(a[i], b[i])])

VSub(a, b) == Members([i \in 1..3 |-> QSub(a[i], b[i])])

VNeg(a) == <<QNeg(a[1]), QNeg(a[2]), QNeg(a[3])>>

VScale(a, k) == Members([i \in 1..3 |-> QMul(a[i], k)])

VAddScalar(a, k) == Members([i \in 1..3 |-> QAdd(a[i], k)])

\* operator/ (Vector3, float); the caller never passes 0 here
VDivScalar(a, k) == Members([i \in 1..3 |-> QDiv(a[i], k)])

\* x * x' + y * y' + z * z', summed from the left
Dot(a, b) ==
    LET SumOf(p) == QAdd(QAdd(p[1], p[2]), p[3])
    IN  SumOf(Members([i \in 1..3 |-> QMul(a[i], b[i])]))

Cross(a, b) ==
    <<QSub(QMul(a[2], b[3]), QMul(a[3], b[2])),
      QSub(QMul(a[3], b[1]), QMul(a[1], b[3])),
      QSub(QMul(a[1], b[2]), QMul(a[2], b[1]))>>

GetSqrMagnitude(a) == Dot(a, a)

GetMagnitude(a) == QSqrt(GetSqrMagnitude(a))

DistanceSqr(a, b) == GetSqrMagnitude(VSub(b, a))

\* GetNormalize and Normalize compute the same vector
GetNormalize(a) ==
    LET Scaled(length) == IF QEq(length, Q0) THEN Zero ELSE VDivScalar(a, length)
    IN  Scaled(QSqrt(GetSqrMagnitude(a)))

\* operator== (Vector3): equal up to 2^-52 on each axis, which on the model's
\* scalars is equality
VEq(a, b) ==
    LET differs(i) == QGt(QMul(QSub(a[i], b[i]), QSub(a[i], b[i])), Q0)
    IN  ~(differs(1) \/ differs(2) \/ differs(3))

----------------------------------------------------------------------------
(* Intersection *)

Intersection(p_impact, p_normal) == [m_impact |-> p_impact, m_normal |-> p_normal]

IntersectionDefault == Intersection(Zero, Zero)

\* Intersection::Reset
Reset(p_hit) == Intersection(Zero, Zero)

----------------------------------------------------------------------------
(* AABB *)

\* AABB::AABB(origin, size); the members are initialised in declaration
\* order, m_extents first
AABB(p_origin, p_size) ==
    LET extents == VDivScalar(p_size, Q2)
    IN  [m_extents |-> extents,
         m_max     |-> VAdd(p_origin, extents),
         m_min     |-> VSub(p_origin, extents),
         m_size    |-> p_size,
         m_origin  |-> p_origin]

\* AABB::AABB()
AABBDefault ==
    [m_extents |-> VDivScalar(One, Q2),
     m_max     |-> One,
     m_min     |-> VScale(One, QInt(-1)),
     m_size    |-> One,
     m_origin  |-> Zero]

\* the body of the loop of AABB::ClosestPoint for axis i
ClosestPointAxis(b, p_point, i) ==
    IF QLt(p_point[i], b.m_min[i]) THEN b.m_min[i]
    ELSE IF QGt(p_point[i], b.m_max[i]) THEN b.m_max[i]
    ELSE p_point[i]

\* a ClosestPoint that forgets to snap: the point itself
ClosestPointNoSnap(b, p_point) == p_point

\* AABB::ClosestPoint
ClosestPoint(b, p_point) ==
    <<ClosestPointAxis(b, p_point, 1),
      ClosestPointAxis(b, p_point, 2),
      ClosestPointAxis(b, p_point, 3)>>

\* a Contains that excludes the boundary
ContainsOpen(b, p_point) ==
    /\ QLt(b.m_min[1], p_point[1]) /\ QLt(p_point[1], b.m_max[1])
    /\ QLt(b.m_min[2], p_point[2]) /\ QLt(p_point[2], b.m_max[2])
    /\ QLt(b.m_min[3], p_point[3]) /\ QLt(p_point[3], b.m_max[3])

\* AABB::Contains
Contains(b, p_point) ==
    /\ QLe(b.m_min[1], p_point[1]) /\ QLe(p_point[1], b.m_max[1])
    /\ QLe(b.m_min[2], p_point[2]) /\ QLe(p_point[2], b.m_max[2])
    /\ QLe(b.m_min[3], p_point[3]) /\ QLe(p_point[3], b.m_max[3])

\* the bit of p_n for mask 1, 2 or 4 (p_n in 0..7)
BitAnd(p_n, mask) == (p_n \div mask) % 2

BitOr(u, v) ==
    (IF BitAnd(u, 1) = 1 \/ BitAnd(v, 1) = 1 THEN 1 ELSE 0)
    + (IF BitAnd(u, 2) = 1 \/ BitAnd(v, 2) = 1 THEN 2 ELSE 0)
    + (IF BitAnd(u, 4) = 1 \/ BitAnd(v, 4) = 1 THEN 4 ELSE 0)

BitXor(u, v) ==
    (IF BitAnd(u, 1) # BitAnd(v, 1) THEN 1 ELSE 0)
    + (IF BitAnd(u, 2) # BitAnd(v, 2) THEN 2 ELSE 0)
    + (IF BitAnd(u, 4) # BitAnd(v, 4) THEN 4 ELSE 0)

\* AABB::Corner: every coordinate is selected by p_n & 1
Corner(b, p_n) ==
    <<IF BitAnd(p_n, 1) = 1 THEN b.m_max[1] ELSE b.m_min[1],
      IF BitAnd(p_n, 1) = 1 THEN b.m_max[2] ELSE b.m_min[2],
      IF BitAnd(p_n, 1) = 1 THEN b.m_max[3] ELSE b.m_min[3]>>

\* AABB::Expand(const Vector3&)
ExpandBy(b, p_amount) ==
    LET extents == VAdd(b.m_extents, p_amount)
    IN  [m_extents |-> extents,
         m_max     |-> VAdd(b.m_origin, extents),
         m_min     |-> VSub(b.m_origin, extents),
         m_size    |-> VAdd(b.m_size, VScale(p_amount, Q2)),
         m_origin  |-> b.m_origin]

\* AABB::AABB(const AABB&), AABB(AABB&&) and the two operator=: member by member
AABBCopy(p_copy) ==
    [m_extents |-> p_copy.m_extents,
     m_max     |-> p_copy.m_max,
     m_min     |-> p_copy.m_min,
     m_size    |-> p_copy.m_size,
     m_origin  |-> p_copy.m_origin]

\* AABB::GetVertices: the front face, then the back face
AABB_GetVertices(b) ==
    LET e == b.m_extents
        From(x, y, z) == VAdd(b.m_origin, <<x, y, z>>)
    IN  <<From(QNeg(e[1]), e[2], e[3]),             From(e[1], e[2], e[3]),
          From(QNeg(e[1]), QNeg(e[2]), e[3]),       From(e[1], QNeg(e[2]), e[3]),
          From(e[1], e[2], QNeg(e[3])),             From(QNeg(e[1]), e[2], QNeg(e[3])),
          From(e[1], QNeg(e[2]), QNeg(e[3])),       From(QNeg(e[1]), QNeg(e[2]), QNeg(e[3]))>>

\* AABB::Expand(float)
Expand(b, p_amount) ==
    LET extents == VAddScalar(b.m_extents, p_amount)
    IN  [m_extents |-> extents,
         m_max     |-> VAdd(b.m_origin, extents),
         m_min     |-> VSub(b.m_origin, extents),
         m_size    |-> VAddScalar(b.m_size, QMul(p_amount, Q2)),
         m_origin  |-> b.m_origin]

\* AABB::IsColliding(const AABB&): false only when the signed difference of
\* the origins exceeds the summed extents on all three axes
AABB_IsColliding(b, p_other) ==
    LET otherExtents == p_other.m_extents
        apart(i) == QGt(QSub(b.m_origin[i], p_other.m_origin[i]),
                        QAdd(b.m_extents[i], otherExtents[i]))
    IN  IF apart(1) /\ apart(2) /\ apart(3) THEN FALSE ELSE TRUE

\* the step of the loop of AABB::Normal for axis i; acc = <<min, normal>>
NormalStep(b, localPoint, acc, i) ==
    LET axis == IF i = 1 THEN Right ELSE IF i = 2 THEN Up ELSE Forward
        Nearer(distance) ==
            IF QLt(distance, acc[1])
            THEN <<distance, VScale(axis, localPoint[i])>>
            ELSE acc
    IN  Nearer(QAbs(QSub(b.m_extents[i], QAbs(localPoint[i]))))

\* the loop of AABB::Normal after its first n passes
RECURSIVE NormalLoop(_, _, _)
NormalLoop(b, localPoint, n) ==
    IF n = 0 THEN <<FltMax, Zero>>
    ELSE NormalStep(b, localPoint, NormalLoop(b, localPoint, n - 1), n)

\* AABB::Normal
Normal(b, p_point) == GetNormalize(NormalLoop(b, VSub(p_point, b.m_origin), 3)[2])

----------------------------------------------------------------------------
(* Plane, Sphere, Cylinder, InfiniteCylinder, Capsule, Line *)

\* Plane::Plane(normal, distance)
Plane(p_normal, p_distance) == [m_normal |-> p_normal, m_distance |-> p_distance]

\* Plane::Plane(normal, point)
PlaneAt(p_normal, p_point) ==
    [m_normal |-> p_normal, m_distance |-> QNeg(Dot(p_point, p_normal))]

\* Plane::GetSide
GetSide(p_plane, p_pt) == QAdd(Dot(p_plane.m_normal, p_pt), p_plane.m_distance)

\* Sphere::Sphere(origin, radius)
Sphere(p_origin, p_radius) == [m_origin |-> p_origin, m_radius |-> p_radius]

\* Sphere::Sphere()
SphereDefault == Sphere(Zero, QNorm(1, 2))

\* Cylinder::Cylinder(origin, direction, height, radius)
Cylinder(p_origin, p_direction, p_height, p_radius) ==
    [m_origin |-> p_origin, m_direction |-> p_direction,
     m_height |-> p_height, m_radius |-> p_radius]

\* InfiniteCylinder::InfiniteCylinder(origin, direction, radius)
InfiniteCylinder(p_origin, p_direction, p_radius) ==
    [m_origin |-> p_origin, m_direction |-> p_direction, m_radius |-> p_radius]

\* Capsule::Capsule(origin, target, radius): the first end point becomes
\* m_origin, the axis runs towards the second
CapsuleBetween(p_origin, p_target, p_radius) ==
    [m_origin    |-> p_origin,
     m_direction |-> GetNormalize(VSub(p_target, p_origin)),
     m_height    |-> GetMagnitude(VSub(p_target, p_origin)),
     m_radius    |-> p_radius]

\* Line::ClosestPointOnLine of Line(origin, direction)
ClosestPointOnLine(p_origin, p_direction, p_point) ==
    VAdd(p_origin, VScale(p_direction, Dot(VSub(p_point, p_origin), p_direction)))

\* Line::Line(origin, direction)
Line(p_origin, p_direction) == [m_origin |-> p_origin, m_direction |-> p_direction]

\* Line::Line()
LineDefault == Line(Zero, Zero)

\* Quad::Quad(origin, size): a Vector2 size, the axes of the world
Quad(p_origin, p_size) ==
    [m_forward |-> Forward, m_right |-> Right, m_up |-> Up,
     m_origin |-> p_origin, m_size |-> p_size]

----------------------------------------------------------------------------
(* Segment *)

\* Segment::Segment(ptA, ptB)
Segment(p_ptA, p_ptB) == [m_ptA |-> p_ptA, m_ptB |-> p_ptB]

\* Segment::Segment()
SegmentDefault == Segment(Zero, Zero)

\* Segment::Segment(const Segment&): both members are initialised from
\* p_copy.m_ptA
SegmentCopy(p_copy) == [m_ptA |-> p_copy.m_ptA, m_ptB |-> p_copy.m_ptA]

\* Segment::Segment(Segment&&): both members are initialised from
\* std::move(p_move.m_ptA); moving a Vector3 copies its three floats
SegmentMove(p_move) == [m_ptA |-> p_move.m_ptA, m_ptB |-> p_move.m_ptA]

\* Segment::operator=(const Segment&)
SegmentAssign(p_copy) == [m_ptA |-> p_copy.m_ptA, m_ptB |-> p_copy.m_ptB]

\* Segment::operator=(Segment&&)
SegmentMoveAssign(p_move) == [m_ptA |-> p_move.m_ptA, m_ptB |-> p_move.m_ptB]

\* Segment::GetAB
GetAB(s) == VSub(s.m_ptB, s.m_ptA)

\* The result of an IsIntersecting call: what it returns and what it leaves
\* in its p_hit argument.
Result(p_ret, p_hit) == [ret |-> p_ret, hit |-> p_hit]

\* Segment::IsIntersecting(const Plane&, Intersection&)
SegmentPlane(s, p_plane, p_hit) ==
    LET Crossing(segmentVector, dot, t) ==
            IF QEq(dot, Q0) THEN Result(FALSE, p_hit)
            ELSE IF QGe(t, Q0) /\ QLe(t, Q1)
            THEN Result(TRUE,
                        Intersection(VAdd(s.m_ptA, VScale(segmentVector, t)),
                                     IF QGt(dot, Q0) THEN VNeg(p_plane.m_normal)
                                                     ELSE p_plane.m_normal))
            ELSE Result(FALSE, p_hit)
        Facing(segmentVector, dot) ==
            Crossing(segmentVector, dot,
                     QSub(p_plane.m_distance, QDiv(Dot(s.m_ptA, p_plane.m_normal), dot)))
        Toward(segmentVector) == Facing(segmentVector, Dot(segmentVector, p_plane.m_normal))
    IN  Toward(VSub(s.m_ptB, s.m_ptA))

\* one pass of the slab loop for axis i over acc = [tmin, tmax, out]; lo and
\* hi are the probe's two end coordinates on that axis
SlabStep(p_aabb, lo, hi, acc, i) ==
    LET Narrowed(tmin, tmax) == [tmin |-> tmin, tmax |-> tmax, out |-> QGt(tmin, tmax)]
        \* t1 and t2 after the swap
        Swapped(t1, t2) ==
            IF QLt(t2, acc.tmin) \/ QGt(t1, acc.tmax) THEN [acc EXCEPT !.out = TRUE]
            ELSE Narrowed(Max(acc.tmin, t1), Min(acc.tmax, t2))
        Slab(d, t1, t2) ==
            IF acc.out \/ QEq(d, Q0) THEN acc
            ELSE IF QLt(t2, t1) THEN Swapped(t2, t1) ELSE Swapped(t1, t2)
        Across(d) == Slab(d, QDiv(QSub(p_aabb.m_min[i], lo), d),
                             QDiv(QSub(p_aabb.m_max[i], lo), d))
    IN  Across(QSub(hi, lo))

\* the loop of Segment / Raycast::IsIntersecting(const AABB&) from a to b,
\* after its first n passes
RECURSIVE Slabs(_, _, _, _)
Slabs(p_aabb, a, b, n) ==
    IF n = 0 THEN [tmin |-> Q0, tmax |-> Q1, out |-> FALSE]
    ELSE SlabStep(p_aabb, a[n], b[n], Slabs(p_aabb, a, b, n - 1), n)

\* a box test that does not stop at tmin == 0: a probe that starts in the
\* box is a hit at its start
SegmentAABBThrough(s, p_aabb, p_hit) ==
    LET HitAt(impact) == Result(TRUE, Intersection(impact, Normal(p_aabb, impact)))
        After(r) == IF r.out THEN Result(FALSE, p_hit)
                    ELSE HitAt(VAdd(s.m_ptA, VScale(GetAB(s), r.tmin)))
    IN  After(Slabs(p_aabb, s.m_ptA, s.m_ptB, 3))

\* Segment::IsIntersecting(const AABB&, Intersection&)
SegmentAABB(s, p_aabb, p_hit) ==
    LET HitAt(impact) == Result(TRUE, Intersection(impact, Normal(p_aabb, impact)))
        After(r) == IF r.out \/ QEq(r.tmin, Q0) THEN Result(FALSE, p_hit)
                    ELSE HitAt(VAdd(s.m_ptA, VScale(GetAB(s), r.tmin)))
    IN  After(Slabs(p_aabb, s.m_ptA, s.m_ptB, 3))

\* a sphere test that reports the start of the probe as the impact, whatever the roots
SegmentSphereAtStart(s, p_sphere, p_hit) ==
    Result(TRUE, Intersection(s.m_ptA, GetNormalize(VSub(s.m_ptA, p_sphere.m_origin))))

\* Segment::IsIntersecting(const Sphere&, Intersection&)
SegmentSphere(s, p_sphere, p_hit) ==
    LET HitAt(impact) ==
            Result(TRUE, Intersection(impact,
                                      GetNormalize(VSub(impact, p_sphere.m_origin))))
        Root(segmentVector, delta, t) ==
            IF QLt(delta, Q0) THEN Result(FALSE, p_hit)
            ELSE IF QGe(t, Q0) /\ QLe(t, Q1)
            THEN HitAt(VAdd(s.m_ptA, VScale(segmentVector, t)))
            ELSE Result(FALSE, p_hit)
        Discriminant(segmentVector, a, b, delta) ==
            Root(segmentVector, delta, QDiv(QSub(QNeg(b), QSqrt(delta)), QMul(Q2, a)))
        Equation(segmentVector, a, b, c) ==
            Discriminant(segmentVector, a, b, QSub(QMul(b, b), QMul(QMul(QInt(4), a), c)))
        Vectors(segmentVector, sphereVector) ==
            Equation(segmentVector,
                     GetSqrMagnitude(segmentVector),
                     QMul(Q2, Dot(sphereVector, segmentVector)),
                     QSub(GetSqrMagnitude(sphereVector),
                          QMul(p_sphere.m_radius, p_sphere.m_radius)))
    IN  Vectors(VSub(s.m_ptB, s.m_ptA), VSub(p_sphere.m_origin, s.m_ptA))

\* Segment::IsIntersecting(const InfiniteCylinder&, Intersection&)
SegmentInfiniteCylinder(s, p_cylinder, p_hit) ==
    LET direction == p_cylinder.m_direction
        HitAt(impact) ==
            Result(TRUE,
                   Intersection(impact,
                                GetNormalize(VSub(impact,
                                    ClosestPointOnLine(p_cylinder.m_origin,
                                                       p_cylinder.m_direction, impact)))))
        Root(segmentVector, delta, t) ==
            IF QLt(delta, Q0) THEN Result(FALSE, p_hit)
            ELSE IF QGe(t, Q0) /\ QLe(t, Q1)
            THEN HitAt(VAdd(s.m_ptA, VScale(segmentVector, t)))
            ELSE Result(FALSE, p_hit)
        Discriminant(segmentVector, a, b, delta) ==
            Root(segmentVector, delta, QDiv(QSub(QNeg(b), QSqrt(delta)), QMul(Q2, a)))
        Equation(segmentVector, a, b, c) ==
            Discriminant(segmentVector, a, b, QSub(QMul(b, b), QMul(QMul(QInt(4), a), c)))
        Dots(segmentVector, cylinderToSegment, dot1, dot2) ==
            Equation(segmentVector,
                     QSub(GetSqrMagnitude(segmentVector), QMul(dot1, dot1)),
                     QSub(QMul(Q2, Dot(cylinderToSegment, segmentVector)),
                          QMul(QMul(Q2, dot1), dot2)),
                     QSub(QSub(GetSqrMagnitude(cylinderToSegment), QMul(dot2, dot2)),
                          QMul(p_cylinder.m_radius, p_cylinder.m_radius)))
        Vectors(segmentVector, cylinderToSegment) ==
            Dots(segmentVector, cylinderToSegment,
                 Dot(segmentVector, direction), Dot(cylinderToSegment, direction))
    IN  Vectors(VSub(s.m_ptB, s.m_ptA), VSub(s.m_ptA, p_cylinder.m_origin))

\* what a cap block of IsIntersecting(const Cylinder&) makes of the answer
\* p_cap of its plane test: a miss returns false, a hit on the disc returns
\* true, a hit off the disc goes on
CapOutcome(p_cap, p_point, p_cylinder) ==
    IF ~p_cap.ret THEN [returned |-> TRUE, result |-> Result(FALSE, p_cap.hit)]
    ELSE IF QLe(DistanceSqr(p_cap.hit.m_impact, p_point),
                QMul(p_cylinder.m_radius, p_cylinder.m_radius))
    THEN [returned |-> TRUE, result |-> Result(TRUE, p_cap.hit)]
    ELSE [returned |-> FALSE, result |-> Result(FALSE, p_cap.hit)]

\* one cap block of Segment::IsIntersecting(const Cylinder&): p_before is what
\* the blocks before it decided
SegmentCylinderCap(s, p_cylinder, p_plane, p_point, p_before) ==
    IF p_before.returned \/ ~QGe(GetSide(p_plane, s.m_ptA), Q0) THEN p_before
    ELSE CapOutcome(SegmentPlane(s, p_plane, p_before.result.hit), p_point, p_cylinder)

\* the first n cap blocks of Segment::IsIntersecting(const Cylinder&), the 'p'
\* side first
RECURSIVE SegmentCylinderCaps(_, _, _, _, _, _)
SegmentCylinderCaps(s, p_cylinder, p_planes, p_points, n, p_hit) ==
    IF n = 0 THEN [returned |-> FALSE, result |-> Result(FALSE, p_hit)]
    ELSE SegmentCylinderCap(s, p_cylinder, p_planes[n], p_points[n],
             SegmentCylinderCaps(s, p_cylinder, p_planes, p_points, n - 1, p_hit))

\* the end of Segment::IsIntersecting(const Cylinder&): between the planes the
\* infinite cylinder decides, on the p_hit the cap blocks left
SegmentCylinderSides(s, p_cylinder, p_caps) ==
    IF p_caps.returned THEN p_caps.result
    ELSE SegmentInfiniteCylinder(s,
             InfiniteCylinder(p_cylinder.m_origin, p_cylinder.m_direction,
                              p_cylinder.m_radius), p_caps.result.hit)

\* Segment::IsIntersecting(const Cylinder&, Intersection&).  A cap test that
\* hits the cap's plane outside the disc falls through with p_hit written.
SegmentCylinder(s, p_cylinder, p_hit) ==
    LET half   == QDiv(p_cylinder.m_height, Q2)
        pointP == VAdd(p_cylinder.m_origin, VScale(p_cylinder.m_direction, half))
        pointQ == VSub(p_cylinder.m_origin, VScale(p_cylinder.m_direction, half))
        planeP == PlaneAt(p_cylinder.m_direction, pointP)
        planeQ == PlaneAt(VNeg(p_cylinder.m_direction), pointQ)
        Outside(target) == QGe(GetSide(planeP, target), Q0) \/ QGe(GetSide(planeQ, target), Q0)
    IN  IF Outside(s.m_ptB) THEN Result(FALSE, p_hit)
        ELSE SegmentCylinderSides(s, p_cylinder,
                 SegmentCylinderCaps(s, p_cylinder, <<planeP, planeQ>>,
                                 <<pointP, pointQ>>, 2, p_hit))

\* one test of Segment::IsIntersecting(const Capsule&, Intersection&): the
\* sphere around pointP ("P"), the one around pointQ ("Q") or the cylinder
\* between them.  A hit before it has returned; a miss hands its p_hit on.
SegmentCapsulePart(s, p_capsule, pointP, pointQ, p_part, p_before) ==
    IF p_before.ret THEN p_before
    ELSE IF p_part = "cylinder"
    THEN SegmentCylinder(s, Cylinder(p_capsule.m_origin, p_capsule.m_direction,
                                   p_capsule.m_height, p_capsule.m_radius),
                  p_before.hit)
    ELSE SegmentSphere(s, Sphere(IF p_part = "P" THEN pointP ELSE pointQ,
                               p_capsule.m_radius),
                p_before.hit)

\* the first n tests of p_order in turn on the same p_hit
RECURSIVE SegmentCapsuleTests(_, _, _, _, _, _, _)
SegmentCapsuleTests(s, p_capsule, pointP, pointQ, p_order, n, p_hit) ==
    IF n = 0 THEN Result(FALSE, p_hit)
    ELSE SegmentCapsulePart(s, p_capsule, pointP, pointQ, p_order[n],
             SegmentCapsuleTests(s, p_capsule, pointP, pointQ, p_order, n - 1, p_hit))

\* Segment::IsIntersecting(const Capsule&, Intersection&)
SegmentCapsule(s, p_capsule, p_hit) ==
    LET half   == QDiv(p_capsule.m_height, Q2)
        pointP == VAdd(p_capsule.m_origin, VScale(p_capsule.m_direction, half))
        pointQ == VSub(p_capsule.m_origin, VScale(p_capsule.m_direction, half))
        planeP == PlaneAt(p_capsule.m_direction, pointP)
        planeQ == PlaneAt(VNeg(p_capsule.m_direction), pointQ)
    IN  SegmentCapsuleTests(s, p_capsule, pointP, pointQ,
            IF QGe(GetSide(planeP, s.m_ptA), Q0) THEN <<"P", "cylinder", "Q">>
            ELSE IF QGe(GetSide(planeQ, s.m_ptA), Q0) THEN <<"Q", "cylinder", "P">>
            ELSE <<"cylinder", "P", "Q">>,
            3, p_hit)

----------------------------------------------------------------------------
(* Raycast *)

\* Raycast::Raycast(origin, direction, maxDistance)
Raycast(p_origin, p_direction, p_maxDistance) ==
    [m_origin |-> p_origin, m_direction |-> p_direction, m_maxDistance |-> p_maxDistance]

\* Raycast::Raycast()
RaycastDefault == Raycast(Zero, Zero, Q0)

\* Raycast::IsIntersecting(const Plane&, Intersection&)
RaycastPlane(r, p_plane, p_hit) ==
    LET Crossing(rayVector, dot, t) ==
            IF QEq(dot, Q0) THEN Result(FALSE, p_hit)
            ELSE IF QGe(t, Q0) /\ QLe(t, Q1)
            THEN Result(TRUE,
                        Intersection(VAdd(r.m_origin, VScale(rayVector, t)),
                                     IF QGt(dot, Q0) THEN VNeg(p_plane.m_normal)
                                                     ELSE p_plane.m_normal))
            ELSE Result(FALSE, p_hit)
        Facing(rayVector, dot) ==
            Crossing(rayVector, dot,
                     QSub(p_plane.m_distance, QDiv(Dot(r.m_origin, p_plane.m_normal), dot)))
        Toward(rayVector) == Facing(rayVector, Dot(rayVector, p_plane.m_normal))
    IN  Toward(VScale(r.m_direction, r.m_maxDistance))

\* Raycast::IsIntersecting(const AABB&, Intersection&): the impact is taken
\* along m_direction, not along m_direction * m_maxDistance
RaycastAABB(r, p_aabb, p_hit) ==
    LET HitAt(impact) == Result(TRUE, Intersection(impact, Normal(p_aabb, impact)))
        After(s) == IF s.out \/ QEq(s.tmin, Q0) THEN Result(FALSE, p_hit)
                    ELSE HitAt(VAdd(r.m_origin, VScale(r.m_direction, s.tmin)))
        target == VAdd(r.m_origin, VScale(r.m_direction, r.m_maxDistance))
    IN  After(Slabs(p_aabb, r.m_origin, target, 3))

\* Raycast::IsIntersecting(const Sphere&, Intersection&)
RaycastSphere(r, p_sphere, p_hit) ==
    LET HitAt(impact) ==
            Result(TRUE, Intersection(impact,
                                      GetNormalize(VSub(impact, p_sphere.m_origin))))
        Root(rayVector, delta, t) ==
            IF QLt(delta, Q0) THEN Result(FALSE, p_hit)
            ELSE IF QGe(t, Q0) /\ QLe(t, Q1)
            THEN HitAt(VAdd(r.m_origin, VScale(rayVector, t)))
            ELSE Result(FALSE, p_hit)
        Discriminant(rayVector, a, b, delta) ==
            Root(rayVector, delta, QDiv(QSub(QNeg(b), QSqrt(delta)), QMul(Q2, a)))
        Equation(rayVector, a, b, c) ==
            Discriminant(rayVector, a, b, QSub(QMul(b, b), QMul(QMul(QInt(4), a), c)))
        Vectors(rayVector, sphereVector) ==
            Equation(rayVector,
                     GetSqrMagnitude(rayVector),
                     QMul(Q2, Dot(sphereVector, rayVector)),
                     QSub(GetSqrMagnitude(sphereVector),
                          QMul(p_sphere.m_radius, p_sphere.m_radius)))
    IN  Vectors(VScale(r.m_direction, r.m_maxDistance), VSub(p_sphere.m_origin, r.m_origin))

\* Raycast::IsIntersecting(const InfiniteCylinder&, Intersection&)
RaycastInfiniteCylinder(r, p_cylinder, p_hit) ==
    LET direction == p_cylinder.m_direction
        HitAt(impact) ==
            Result(TRUE,
                   Intersection(impact,
                                GetNormalize(VSub(impact,
                                    ClosestPointOnLine(p_cylinder.m_origin,
                                                       p_cylinder.m_direction, impact)))))
        Root(rayVector, delta, t) ==
            IF QLt(delta, Q0) THEN Result(FALSE, p_hit)
            ELSE IF QGe(t, Q0) /\ QLe(t, Q1)
            THEN HitAt(VAdd(r.m_origin, VScale(rayVector, t)))
            ELSE Result(FALSE, p_hit)
        Discriminant(rayVector, a, b, delta) ==
            Root(rayVector, delta, QDiv(QSub(QNeg(b), QSqrt(delta)), QMul(Q2, a)))
        Equation(rayVector, a, b, c) ==
            Discriminant(rayVector, a, b, QSub(QMul(b, b), QMul(QMul(QInt(4), a), c)))
        Dots(rayVector, cylinderToSegment, dot1, dot2) ==
            Equation(rayVector,
                     QSub(GetSqrMagnitude(rayVector), QMul(dot1, dot1)),
                     QSub(QMul(Q2, Dot(cylinderToSegment, rayVector)),
                          QMul(QMul(Q2, dot1), dot2)),
                     QSub(QSub(GetSqrMagnitude(cylinderToSegment), QMul(dot2, dot2)),
                          QMul(p_cylinder.m_radius, p_cylinder.m_radius)))
        Vectors(rayVector, cylinderToSegment) ==
            Dots(rayVector, cylinderToSegment,
                 Dot(rayVector, direction), Dot(cylinderToSegment, direction))
    IN  Vectors(VScale(r.m_direction, r.m_maxDistance), VSub(r.m_origin, p_cylinder.m_origin))

\* one cap block of Raycast::IsIntersecting(const Cylinder&): p_before is what
\* the blocks before it decided
RaycastCylinderCap(r, p_cylinder, p_plane, p_point, p_before) ==
    IF p_before.returned \/ ~QGe(GetSide(p_plane, r.m_origin), Q0) THEN p_before
    ELSE CapOutcome(RaycastPlane(r, p_plane, p_before.result.hit), p_point, p_cylinder)

\* the first n cap blocks of Raycast::IsIntersecting(const Cylinder&), the 'p'
\* side first
RECURSIVE RaycastCylinderCaps(_, _, _, _, _, _)
RaycastCylinderCaps(r, p_cylinder, p_planes, p_points, n, p_hit) ==
    IF n = 0 THEN [returned |-> FALSE, result |-> Result(FALSE, p_hit)]
    ELSE RaycastCylinderCap(r, p_cylinder, p_planes[n], p_points[n],
             RaycastCylinderCaps(r, p_cylinder, p_planes, p_points, n - 1, p_hit))

\* the end of Raycast::IsIntersecting(const Cylinder&): between the planes the
\* infinite cylinder decides, on the p_hit the cap blocks left
RaycastCylinderSides(r, p_cylinder, p_caps) ==
    IF p_caps.returned THEN p_caps.result
    ELSE RaycastInfiniteCylinder(r,
             InfiniteCylinder(p_cylinder.m_origin, p_cylinder.m_direction,
                              p_cylinder.m_radius), p_caps.result.hit)

\* Raycast::IsIntersecting(const Cylinder&, Intersection&).  A cap test that
\* hits the cap's plane outside the disc falls through with p_hit written.
RaycastCylinder(r, p_cylinder, p_hit) ==
    LET half   == QDiv(p_cylinder.m_height, Q2)
        pointP == VAdd(p_cylinder.m_origin, VScale(p_cylinder.m_direction, half))
        pointQ == VSub(p_cylinder.m_origin, VScale(p_cylinder.m_direction, half))
        planeP == PlaneAt(p_cylinder.m_direction, pointP)
        planeQ == PlaneAt(VNeg(p_cylinder.m_direction), pointQ)
        Outside(target) == QGe(GetSide(planeP, target), Q0) \/ QGe(GetSide(planeQ, target), Q0)
    IN  IF Outside(VAdd(r.m_origin, VScale(r.m_direction, r.m_maxDistance))) THEN Result(FALSE, p_hit)
        ELSE RaycastCylinderSides(r, p_cylinder,
                 RaycastCylinderCaps(r, p_cylinder, <<planeP, planeQ>>,
                                 <<pointP, pointQ>>, 2, p_hit))

\* one test of Raycast::IsIntersecting(const Capsule&, Intersection&): the
\* sphere around pointP ("P"), the one around pointQ ("Q") or the cylinder
\* between them.  A hit before it has returned; a miss hands its p_hit on.
RaycastCapsulePart(r, p_capsule, pointP, pointQ, p_part, p_before) ==
    IF p_before.ret THEN p_before
    ELSE IF p_part = "cylinder"
    THEN RaycastCylinder(r, Cylinder(p_capsule.m_origin, p_capsule.m_direction,
                                   p_capsule.m_height, p_capsule.m_radius),
                  p_before.hit)
    ELSE RaycastSphere(r, Sphere(IF p_part = "P" THEN pointP ELSE pointQ,
                               p_capsule.m_radius),
                p_before.hit)

\* the first n tests of p_order in turn on the same p_hit
RECURSIVE RaycastCapsuleTests(_, _, _, _, _, _, _)
RaycastCapsuleTests(r, p_capsule, pointP, pointQ, p_order, n, p_hit) ==
    IF n = 0 THEN Result(FALSE, p_hit)
    ELSE RaycastCapsulePart(r, p_capsule, pointP, pointQ, p_order[n],
             RaycastCapsuleTests(r, p_capsule, pointP, pointQ, p_order, n - 1, p_hit))

\* Raycast::IsIntersecting(const Capsule&, Intersection&)
RaycastCapsule(r, p_capsule, p_hit) ==
    LET half   == QDiv(p_capsule.m_height, Q2)
        pointP == VAdd(p_capsule.m_origin, VScale(p_capsule.m_direction, half))
        pointQ == VSub(p_capsule.m_origin, VScale(p_capsule.m_direction, half))
        planeP == PlaneAt(p_capsule.m_direction, pointP)
        planeQ == PlaneAt(VNeg(p_capsule.m_direction), pointQ)
    IN  RaycastCapsuleTests(r, p_capsule, pointP, pointQ,
            IF QGe(GetSide(planeP, r.m_origin), Q0) THEN <<"P", "cylinder", "Q">>
            ELSE IF QGe(GetSide(planeQ, r.m_origin), Q0) THEN <<"Q", "cylinder", "P">>
            ELSE <<"cylinder", "P", "Q">>,
            3, p_hit)

----------------------------------------------------------------------------
(* Sphere::IsMovingSphereColliding(const AABB&, const Vector3&, Intersection&) *)

\* the result of the swept test: what it returns, what it leaves in p_hit and
\* the branch that returned
Swept(p_ret, p_hit, p_region) == [ret |-> p_ret, hit |-> p_hit, region |-> p_region]

\* u (below-min bits) or v (above-max bits) of an impact against the box
BelowBits(p_aabb, p_impact) ==
    (IF QLt(p_impact[1], p_aabb.m_min[1]) THEN 1 ELSE 0)
    + (IF QLt(p_impact[2], p_aabb.m_min[2]) THEN 2 ELSE 0)
    + (IF QLt(p_impact[3], p_aabb.m_min[3]) THEN 4 ELSE 0)

\* an above-max code that sets the bits of the axes where the impact is
\* under min
AboveBitsUnderMin(p_aabb, p_impact) == BelowBits(p_aabb, p_impact)

AboveBits(p_aabb, p_impact) ==
    (IF QGt(p_impact[1], p_aabb.m_max[1]) THEN 1 ELSE 0)
    + (IF QGt(p_impact[2], p_aabb.m_max[2]) THEN 2 ELSE 0)
    + (IF QGt(p_impact[3], p_aabb.m_max[3]) THEN 4 ELSE 0)

\* one of the three capsule tests of the vertex region: acc = [hit, tmp] are
\* p_hit and tmpHit; tmpHit keeps what an earlier test wrote
VertexStep(s, movement, p_aabb, v, bit, acc) ==
    LET Closer(r) ==
            IF r.ret /\ QLt(DistanceSqr(s.m_origin, r.hit.m_impact),
                            DistanceSqr(s.m_origin, acc.hit.m_impact))
            THEN [hit |-> r.hit, tmp |-> r.hit]
            ELSE [hit |-> acc.hit, tmp |-> r.hit]
    IN  Closer(SegmentCapsule(movement,
                   CapsuleBetween(Corner(p_aabb, v), Corner(p_aabb, BitXor(v, bit)),
                                  s.m_radius),
                   acc.tmp))

\* the vertex region after its first n capsule tests (towards v ^ 1, v ^ 2
\* and v ^ 4), p_hit starting at the impact (FLT_MAX, FLT_MAX, FLT_MAX)
RECURSIVE VertexTests(_, _, _, _, _, _)
VertexTests(s, movement, p_aabb, v, p_hit, n) ==
    IF n = 0
    THEN [hit |-> Intersection(<<FltMax, FltMax, FltMax>>, p_hit.m_normal),
          tmp |-> IntersectionDefault]
    ELSE VertexStep(s, movement, p_aabb, v, <<1, 2, 4>>[n],
                    VertexTests(s, movement, p_aabb, v, p_hit, n - 1))

\* the area of the box the impact raw on the expanded box lies in (u and v
\* are its below-min and above-max bits) and the test made there
MovingSphereArea(s, p_aabb, movement, raw, u, v) ==
    LET Vertex(c) ==
            IF VEq(c.hit.m_impact, <<FltMax, FltMax, FltMax>>)
            THEN Swept(FALSE, Reset(c.hit), "vertex")
            ELSE Swept(TRUE, c.hit, "vertex")
        Edge(r) == Swept(r.ret, r.hit, "edge")
        m == u + v
    IN  IF m = 7 THEN Vertex(VertexTests(s, movement, p_aabb, v, raw.hit, 3))
        ELSE IF BitAnd(m, 1) + BitAnd(m, 2) + BitAnd(m, 4) <= 1
        THEN Swept(TRUE,
                   Intersection(ClosestPoint(p_aabb, raw.hit.m_impact), raw.hit.m_normal),
                   "face")
        ELSE Edge(SegmentCapsule(movement,
                      CapsuleBetween(Corner(p_aabb, BitXor(u, 7)), Corner(p_aabb, v),
                                     s.m_radius),
                      raw.hit))

\* IsMovingSphereColliding once the movement met the expanded box or not
MovingSphereExpanded(s, p_aabb, movement, raw) ==
    IF ~raw.ret THEN Swept(FALSE, raw.hit, "miss")
    ELSE MovingSphereArea(s, p_aabb, movement, raw,
                          BelowBits(p_aabb, raw.hit.m_impact),
                          AboveBits(p_aabb, raw.hit.m_impact))

\* Sphere::IsMovingSphereColliding(const AABB&, const Vector3&, Intersection&)
IsMovingSphereColliding(s, p_aabb, p_speed, p_hit) ==
    LET movement == Segment(s.m_origin, VAdd(s.m_origin, p_speed))
    IN  MovingSphereExpanded(s, p_aabb, movement,
                             SegmentAABB(movement, Expand(p_aabb, s.m_radius), p_hit))

----------------------------------------------------------------------------
(* Quaternion::Euler and Matrix4x4::Rotate, for angles that are whole      *)
(* quarter turns.  The cosine and sine of half such an angle are 0, 1 or   *)
(* +-sqrt(2)/2, so a quaternion is four integers times (sqrt(2)/2)^k and   *)
(* every entry of its rotation matrix is an exact rational.                *)

\* quarter turns of an angle in degrees
Quarter(p_degrees) == (p_degrees[1] \div 90) % 4

\* std::cos / std::sin of half the angle, as a coefficient of (sqrt(2)/2)^Odd
CosHalf(q) == CASE q = 0 -> 1 [] q = 1 -> 1 [] q = 2 -> 0 [] OTHER -> -1
SinHalf(q) == CASE q = 0 -> 0 [] OTHER -> 1
Odd(q) == q % 2

\* Quaternion::Euler(p_eulerRotation)
Euler(p_eulerRotation) ==
    LET qx == Quarter(p_eulerRotation[1])
        qy == Quarter(p_eulerRotation[2])
        qz == Quarter(p_eulerRotation[3])
        cosX == CosHalf(qx)  cosY == CosHalf(qy)  cosZ == CosHalf(qz)
        sinX == SinHalf(qx)  sinY == SinHalf(qy)  sinZ == SinHalf(qz)
    IN  [m_x |-> sinX * cosY * cosZ + cosX * sinY * sinZ,
         m_y |-> cosX * sinY * cosZ - sinX * cosY * sinZ,
         m_z |-> cosX * cosY * sinZ - sinX * sinY * cosZ,
         m_w |-> cosX * cosY * cosZ + sinX * sinY * sinZ,
         k   |-> Odd(qx) + Odd(qy) + Odd(qz)]

Pow2(k) == CASE k = 0 -> 1 [] k = 1 -> 2 [] k = 2 -> 4 [] OTHER -> 8

\* Matrix4x4::Rotate(p_q): rows 0..3 are tuples 1..4
Rotate(p_q) ==
    LET P(a, b) == QNorm(a * b, Pow2(p_q.k))
        sqrX == P(p_q.m_x, p_q.m_x)
        sqrY == P(p_q.m_y, p_q.m_y)
        sqrZ == P(p_q.m_z, p_q.m_z)
        OneMinus2(a, b) == QSub(Q1, QMul(Q2, QAdd(a, b)))
        TwoSum(a, b)    == QMul(Q2, QAdd(a, b))
        TwoDiff(a, b)   == QMul(Q2, QSub(a, b))
    IN  << << OneMinus2(sqrY, sqrZ),
              TwoDiff(P(p_q.m_x, p_q.m_y), P(p_q.m_z, p_q.m_w)),
              TwoSum(P(p_q.m_x, p_q.m_z), P(p_q.m_y, p_q.m_w)), Q0 >>,
           << TwoSum(P(p_q.m_x, p_q.m_y), P(p_q.m_z, p_q.m_w)),
              OneMinus2(sqrX, sqrZ),
              TwoDiff(P(p_q.m_y, p_q.m_z), P(p_q.m_x, p_q.m_w)), Q0 >>,
           << TwoDiff(P(p_q.m_x, p_q.m_z), P(p_q.m_y, p_q.m_w)),
              TwoSum(P(p_q.m_y, p_q.m_z), P(p_q.m_x, p_q.m_w)),
              OneMinus2(sqrX, sqrY), Q0 >>,
           << Q0, Q0, Q0, Q1 >> >>

\* operator*(const Matrix4x4&, const Vector3&)
MatMulVec(p_m, p_v) ==
    LET Divided(row) == VDivScalar(<<row[1], row[2], row[3]>>, row[4])
    IN  Divided([i \in 1..4 |->
                    QAdd(QAdd(QAdd(QMul(p_m[i][1], p_v[1]), QMul(p_m[i][2], p_v[2])),
                              QMul(p_m[i][3], p_v[3])), p_m[i][4])])

----------------------------------------------------------------------------
(* OBB and Range *)

\* OBB::OBB(origin, extents, angle); the angle is in degrees per axis
OBB(p_origin, p_extents, p_angle) ==
    [m_origin |-> p_origin, m_extents |-> p_extents, m_angle |-> p_angle]

\* OBB::OBB()
OBBDefault == OBB(Zero, VDivScalar(One, Q2), Zero)

\* OBB::GetVertices
OBB_GetVertices(o) ==
    LET \* the signs of the extents in the eight vertices, front face first
        signs == << <<-1, 1, 1>>, <<1, 1, 1>>, <<-1, -1, 1>>, <<1, -1, 1>>,
                    <<1, 1, -1>>, <<-1, 1, -1>>, <<1, -1, -1>>, <<-1, -1, -1>> >>
        Signed(n, i) == IF signs[n][i] < 0 THEN QNeg(o.m_extents[i]) ELSE o.m_extents[i]
        Pushed(v) == <<v[1], v[2], v[3], v[4], v[5], v[6], v[7], v[8]>>
        Around(rotation) ==
            Pushed([n \in 1..8 |->
                       VAdd(o.m_origin,
                            MatMulVec(rotation, <<Signed(n, 1), Signed(n, 2), Signed(n, 3)>>))])
    IN  Around(Rotate(Euler(o.m_angle)))

\* the running maximum of GetAABB over coordinate c of the first n vertices
RECURSIVE MaxCoordOf(_, _, _)
MaxCoordOf(vertices, c, n) ==
    IF n = 0 THEN FltMin ELSE Max(MaxCoordOf(vertices, c, n - 1), vertices[n][c])

\* OBB::GetAABB
GetAABB(o) ==
    LET Around(vertices) ==
            AABB(o.m_origin, Members([c \in 1..3 |-> MaxCoordOf(vertices, c, Len(vertices))]))
    IN  Around(OBB_GetVertices(o))

\* Range::Range(min, max)
Range(p_min, p_max) == [m_min |-> p_min, m_max |-> p_max]

\* the loop of Range::SAT over the first n vertices
RECURSIVE SATLoop(_, _, _)
SATLoop(p_vector, vertices, n) ==
    LET Widened(range, dot) == Range(Min(range.m_min, dot), Max(range.m_max, dot))
    IN  IF n = 0 THEN Range(FltMax, FltMin)
        ELSE Widened(SATLoop(p_vector, vertices, n - 1), Dot(p_vector, vertices[n]))

\* Range::SAT(p_vector, p_obb)
SAT(p_vector, p_obb) ==
    LET Over(vertices) == SATLoop(p_vector, vertices, Len(vertices))
    IN  Over(OBB_GetVertices(p_obb))

\* an overlap test that takes ranges that only touch for separate
IsOverlappingStrict(r, p_other) ==
    IF QLe(r.m_max, p_other.m_min) \/ QGe(r.m_min, p_other.m_max) THEN FALSE ELSE TRUE

\* Range::IsOverlapping
IsOverlapping(r, p_other) ==
    IF QLt(r.m_max, p_other.m_min) \/ QGt(r.m_min, p_other.m_max) THEN FALSE ELSE TRUE

\* OBB::IsColliding(const OBB&)
OBB_IsColliding(o, p_other) ==
    LET UnitVectors(rotation) ==
            Members([i \in 1..3 |-> MatMulVec(rotation, <<Right, Up, Forward>>[i])])
        \* lhsVectors, rhsVectors and crossProducts; the code returns false at
        \* the first of them that separates the boxes
        Axes(lhsVectors, rhsVectors) ==
            {lhsVectors[i] : i \in 1..3} \cup {rhsVectors[i] : i \in 1..3}
                \cup {Cross(lhsVectors[i], rhsVectors[j]) : i \in 1..3, j \in 1..3}
    IN  IF AABB_IsColliding(GetAABB(o), GetAABB(p_other))
        THEN \A axis \in Axes(UnitVectors(Rotate(Euler(o.m_angle))),
                              UnitVectors(Rotate(Euler(p_other.m_angle)))) :
                 IsOverlapping(SAT(axis, o), SAT(axis, p_other))
        ELSE FALSE

----------------------------------------------------------------------------
(* Quad::IsPointInclude, the probes against a Quad and an OBB, and the     *)
(* overload of IsIntersecting that the class of the shape selects.         *)

\* Quad::IsPointInclude: the point is on the plane of the quad and between
\* -max and max, max being the sum of the three half sides
IsPointInclude(q, p_pt) ==
    LET Between(max) ==
            \A i \in 1..3 : QLe(QNeg(max[i]), p_pt[i]) /\ QLe(p_pt[i], max[i])
        HalfSide(axis, side) == VDivScalar(VScale(axis, side), Q2)
        OnPlane(cartesian) ==
            IF QEq(cartesian, Q0)
            THEN Between(VAdd(VAdd(HalfSide(q.m_right, q.m_size[1]),
                                   HalfSide(q.m_up, q.m_size[2])),
                              HalfSide(q.m_forward, q.m_size[2])))
            ELSE FALSE
        Cartesian(distance) == OnPlane(QAdd(Dot(q.m_up, p_pt), distance))
    IN  Cartesian(QNeg(Dot(q.m_up, q.m_origin)))

\* the plane test wrote p_hit; && then asks the quad about the impact
QuadOutcome(q, r) == Result(r.ret /\ IsPointInclude(q, r.hit.m_impact), r.hit)

\* Segment::IsIntersecting(const Quad&, Intersection&)
SegmentQuad(s, p_quad, p_hit) ==
    QuadOutcome(p_quad, SegmentPlane(s, PlaneAt(p_quad.m_up, p_quad.m_origin), p_hit))

\* Raycast::IsIntersecting(const Quad&, Intersection&)
RaycastQuad(r, p_quad, p_hit) ==
    QuadOutcome(p_quad, RaycastPlane(r, PlaneAt(p_quad.m_up, p_quad.m_origin), p_hit))

\* a hit on the local box, turned back by the inverted rotation
OBBOutcome(p_obb, r) ==
    LET Turned(invertedRotation) ==
            Result(TRUE, Intersection(MatMulVec(invertedRotation, r.hit.m_impact),
                                      MatMulVec(invertedRotation, r.hit.m_normal)))
    IN  IF r.ret THEN Turned(Rotate(Euler(VNeg(p_obb.m_angle)))) ELSE r

\* Segment::IsIntersecting(const OBB&, Intersection&)
SegmentOBB(s, p_obb, p_hit) ==
    LET Local(rotation) ==
            SegmentAABB(Segment(MatMulVec(rotation, s.m_ptA), MatMulVec(rotation, s.m_ptB)),
                        AABB(p_obb.m_origin, VScale(p_obb.m_extents, Q2)), p_hit)
    IN  OBBOutcome(p_obb, Local(Rotate(Euler(p_obb.m_angle))))

\* Raycast::IsIntersecting(const OBB&, Intersection&)
RaycastOBB(r, p_obb, p_hit) ==
    LET Local(rotation) ==
            RaycastAABB(Raycast(MatMulVec(rotation, r.m_origin),
                                MatMulVec(rotation, r.m_direction), r.m_maxDistance),
                        AABB(p_obb.m_origin, VScale(p_obb.m_extents, Q2)), p_hit)
    IN  OBBOutcome(p_obb, Local(Rotate(Euler(p_obb.m_angle))))

\* Segment::IsIntersecting, by the class of p_shape
SegmentIsIntersecting(s, p_shape, p_hit) ==
    CASE p_shape.kind = "Plane"            -> SegmentPlane(s, p_shape.is, p_hit)
      [] p_shape.kind = "Quad"             -> SegmentQuad(s, p_shape.is, p_hit)
      [] p_shape.kind = "OBB"              -> SegmentOBB(s, p_shape.is, p_hit)
      [] p_shape.kind = "AABB"             -> SegmentAABB(s, p_shape.is, p_hit)
      [] p_shape.kind = "Sphere"           -> SegmentSphere(s, p_shape.is, p_hit)
      [] p_shape.kind = "Cylinder"         -> SegmentCylinder(s, p_shape.is, p_hit)
      [] p_shape.kind = "InfiniteCylinder" -> SegmentInfiniteCylinder(s, p_shape.is, p_hit)
      [] p_shape.kind = "Capsule"          -> SegmentCapsule(s, p_shape.is, p_hit)

\* Raycast::IsIntersecting, by the class of p_shape
RaycastIsIntersecting(r, p_shape, p_hit) ==
    CASE p_shape.kind = "Plane"            -> RaycastPlane(r, p_shape.is, p_hit)
      [] p_shape.kind = "Quad"             -> RaycastQuad(r, p_shape.is, p_hit)
      [] p_shape.kind = "OBB"              -> RaycastOBB(r, p_shape.is, p_hit)
      [] p_shape.kind = "AABB"             -> RaycastAABB(r, p_shape.is, p_hit)
      [] p_shape.kind = "Sphere"           -> RaycastSphere(r, p_shape.is, p_hit)
      [] p_shape.kind = "Cylinder"         -> RaycastCylinder(r, p_shape.is, p_hit)
      [] p_shape.kind = "InfiniteCylinder" -> RaycastInfiniteCylinder(r, p_shape.is, p_hit)
      [] p_shape.kind = "Capsule"          -> RaycastCapsule(r, p_shape.is, p_hit)

----------------------------------------------------------------------------
(* The tests that are not implemented.  Each overload casts its arguments  *)
(* to void and returns false; p_shape is the other shape, whatever its     *)
(* class, and the overloads that take an Intersection& do not write it.    *)

\* AABB::IsColliding(const OBB& / Sphere& / Cylinder& / InfiniteCylinder& / Capsule&)
AABB_IsCollidingOther(b, p_shape) == FALSE

\* OBB::IsColliding(const AABB& / Sphere& / Cylinder& / InfiniteCylinder& / Capsule&)
OBB_IsCollidingOther(o, p_shape) == FALSE

\* Sphere::IsColliding(const Sphere& / OBB& / AABB& / Cylinder& / InfiniteCylinder& / Capsule&)
Sphere_IsColliding(s, p_shape) == FALSE

\* Sphere::IsMovingSphereColliding(const Sphere& / OBB& / Cylinder& / InfiniteCylinder& / Capsule&, p_speed, p_hit)
IsMovingSphereCollidingOther(s, p_shape, p_speed, p_hit) == Result(FALSE, p_hit)

\* what a Line test would do if it reported a hit at the origin of the line
Line_IsIntersectingHits(l, p_shape, p_hit) == Result(TRUE, Intersection(l.m_origin, Up))

\* Line::IsIntersecting(const Plane& / Quad& / OBB& / AABB& / Sphere& / Cylinder& / InfiniteCylinder& / Capsule&, p_hit)
Line_IsIntersecting(l, p_shape, p_hit) == Result(FALSE, p_hit)

----------------------------------------------------------------------------
(* The calls.  Each specification below draws the arguments of a group of  *)
(* calls in its initial state and then makes each call once, in any order; *)
(* the variables a group does not use stay at default-constructed values.  *)

RetDefault ==
    [collide |-> FALSE, back |-> FALSE, contains |-> FALSE, closest |-> Zero,
     inside |-> FALSE, ray |-> FALSE, seg |-> FALSE, sweep |-> FALSE,
     aabbOther |-> FALSE, obbOther |-> FALSE, sphereOther |-> FALSE,
     sweepOther |-> FALSE, line |-> FALSE, overlap |-> FALSE, overlapBack |-> FALSE,
     corner |-> [n \in 0..7 |-> Zero], vertices |-> <<>>,
     copied |-> SegmentDefault, moved |-> SegmentDefault,
     assigned |-> SegmentDefault, moveAssigned |-> SegmentDefault]

\* a shape passed to a call, with the class that selects the overload
Shape(p_kind, p_is) == [kind |-> p_kind, is |-> p_is]

NoShape == Shape("none", Zero)

NoCallYet ==
    /\ hit = IntersectionDefault
    /\ hit2 = IntersectionDefault
    /\ ret = RetDefault
    /\ region = "none"
    /\ line = LineDefault
    /\ shape = NoShape
    /\ rangeA = Range(Q0, Q0)
    /\ rangeB = Range(Q0, Q0)
    /\ pc = {}

Called(p_name) == p_name \in pc

\* the call p_name returns p_value in field p_field of ret
Return(p_name, p_field, p_value) ==
    /\ ~Called(p_name)
    /\ ret' = [ret EXCEPT ![p_field] = p_value]
    /\ pc' = pc \cup {p_name}

----------------------------------------------------------------------------
(* SpecAABB: a.IsColliding(b) and b.IsColliding(a) on two AABBs *)

MaxCoord == 1
MaxSize == 2

Grid(n) == {<<x, y, z>> : x \in -n..n, y \in -n..n, z \in -n..n}

CubeSet == {AABB(VecInt(o[1], o[2], o[3]), VecInt(k, k, k)) : o \in Grid(MaxCoord), k \in 1..MaxSize}

InitAABB ==
    /\ boxA \in CubeSet
    /\ boxB \in CubeSet
    /\ point = Zero
    /\ obbA = OBBDefault
    /\ obbB = OBBDefault
    /\ ray = RaycastDefault
    /\ seg = SegmentDefault
    /\ sphere = SphereDefault
    /\ speed = Zero
    /\ NoCallYet

CallIsColliding ==
    /\ Return("IsColliding", "collide", AABB_IsColliding(boxA, boxB))
    /\ UNCHANGED <<line, shape, rangeA, rangeB, boxA, boxB, point, obbA, obbB, ray, seg, sphere, speed, hit, hit2, region>>

CallIsCollidingBack ==
    /\ Return("IsCollidingBack", "back", AABB_IsColliding(boxB, boxA))
    /\ UNCHANGED <<line, shape, rangeA, rangeB, boxA, boxB, point, obbA, obbB, ray, seg, sphere, speed, hit, hit2, region>>

NextAABB == CallIsColliding \/ CallIsCollidingBack

SpecAABB == InitAABB /\ [][NextAABB]_vars

\* two boxes are apart on axis i
Separated(a, b, i) ==
    QGt(QAbs(QSub(a.m_origin[i], b.m_origin[i])), QAdd(a.m_extents[i], b.m_extents[i]))

\* C1: a.IsColliding(b) returns false if and only if the boxes are apart on at
\* least one of the three axes, |a.origin[i] - b.origin[i]| > a.extents[i] +
\* b.extents[i]; in every other case it returns true.
C1_FalseIffSeparatedOnSomeAxis ==
    Called("IsColliding") =>
        (ret.collide = FALSE <=> \E i \in 1..3 : Separated(boxA, boxB, i))

\* C2: AABB-AABB collision is symmetric, a.IsColliding(b) = b.IsColliding(a).
C2_Symmetric ==
    (Called("IsColliding") /\ Called("IsCollidingBack")) => ret.collide = ret.back

----------------------------------------------------------------------------
(* SpecPoint: b.Contains(p), b.ClosestPoint(p), b.Contains(b.ClosestPoint(p)) *)

MaxOrigin == 1
MaxPoint == 3

\* boxes of integer origin and size, the degenerate size 0 included
BoxSet ==
    {AABB(VecInt(x, y, z), VecInt(k, k, k)) :
        x \in 0..MaxOrigin, y \in 0..MaxOrigin, z \in 0..MaxOrigin, k \in 0..MaxSize}

\* points of the half-integer grid
PointSet == {<<QNorm(g[1], 2), QNorm(g[2], 2), QNorm(g[3], 2)>> : g \in Grid(MaxPoint)}

InitPoint ==
    /\ boxA \in BoxSet
    /\ boxB = AABBDefault
    /\ point \in PointSet
    /\ obbA = OBBDefault
    /\ obbB = OBBDefault
    /\ ray = RaycastDefault
    /\ seg = SegmentDefault
    /\ sphere = SphereDefault
    /\ speed = Zero
    /\ NoCallYet

CallContains ==
    /\ Return("Contains", "contains", Contains(boxA, point))
    /\ UNCHANGED <<line, shape, rangeA, rangeB, boxA, boxB, point, obbA, obbB, ray, seg, sphere, speed, hit, hit2, region>>

CallClosestPoint ==
    /\ Return("ClosestPoint", "closest", ClosestPoint(boxA, point))
    /\ UNCHANGED <<line, shape, rangeA, rangeB, boxA, boxB, point, obbA, obbB, ray, seg, sphere, speed, hit, hit2, region>>

\* b.Contains(q) on the point q that b.ClosestPoint(p) returned
CallContainsClosest ==
    /\ Called("ClosestPoint")
    /\ Return("ContainsClosest", "inside", Contains(boxA, ret.closest))
    /\ UNCHANGED <<line, shape, rangeA, rangeB, boxA, boxB, point, obbA, obbB, ray, seg, sphere, speed, hit, hit2, region>>

NextPoint == CallContains \/ CallClosestPoint \/ CallContainsClosest

SpecPoint == InitPoint /\ [][NextPoint]_vars

\* min[i] <= p[i] <= max[i] on the three axes
WithinBounds(b, p) ==
    \A i \in 1..3 : QLe(b.m_min[i], p[i]) /\ QLe(p[i], b.m_max[i])

\* p[i] clamped to [min[i], max[i]]
Clamped(b, p, i) ==
    IF QLt(p[i], b.m_min[i]) THEN b.m_min[i]
    ELSE IF QGt(p[i], b.m_max[i]) THEN b.m_max[i] ELSE p[i]

C9Example ==
    /\ boxA = AABB(Zero, VecInt(2, 2, 2))
    /\ point = <<Q0, Q0, QNorm(3, 2)>>

\* C9: Contains(p) is true iff min[i] <= p[i] <= max[i] on all three axes,
\* boundary included; ClosestPoint(p) is p clamped per coordinate to
\* [min[i], max[i]], so Contains(ClosestPoint(p)) holds and ClosestPoint(p) = p
\* iff Contains(p); for AABB((0,0,0),(2,2,2)) and p = (0,0,1.5), Contains is
\* false and ClosestPoint is (0,0,1).
C9_ContainsAndClosestPoint ==
    /\ Called("Contains") => (ret.contains <=> WithinBounds(boxA, point))
    /\ Called("ClosestPoint") =>
           /\ \A i \in 1..3 : ret.closest[i] = Clamped(boxA, point, i)
           /\ (ret.closest = point) <=> WithinBounds(boxA, point)
    /\ (Called("ClosestPoint") /\ Called("Contains")) =>
           ((ret.closest = point) <=> ret.contains)
    /\ Called("ContainsClosest") => ret.inside
    /\ (C9Example /\ Called("Contains")) => ret.contains = FALSE
    /\ (C9Example /\ Called("ClosestPoint")) => ret.closest = <<Q0, Q0, Q1>>

\* the example of C9 after the three calls
C9_Witness ==
    /\ C9Example
    /\ pc = {"Contains", "ClosestPoint", "ContainsClosest"}
    /\ ret.contains = FALSE
    /\ ret.closest = <<Q0, Q0, Q1>>
    /\ ret.inside

----------------------------------------------------------------------------
(* SpecOBB: a.IsColliding(b) and b.IsColliding(a) on two OBBs *)

\* cubes and flat boxes
ExtentSet == {One, <<Q1, QNorm(1, 2), QNorm(1, 2)>>}

\* no rotation, or a quarter turn about z
AngleSet == {Zero, VecInt(0, 0, 90)}

\* origins on the diagonal x = y = z, and in the plane y = z
Diagonal(n) == {<<x, x, x>> : x \in -n..n}
Slice(n) == {<<x, y, y>> : x \in -n..n, y \in -n..n}

OBBSet(p_origins) ==
    {OBB(VecInt(o[1], o[2], o[3]), e, a) : o \in p_origins, e \in ExtentSet, a \in AngleSet}

\* the second boxes of the two aligned unit-extent examples, at x = 3 and x = 1.5
OBBExampleSet == {OBB(VecInt(3, 0, 0), One, Zero), OBB(<<QNorm(3, 2), Q0, Q0>>, One, Zero)}

InitOBB ==
    /\ boxA = AABBDefault
    /\ boxB = AABBDefault
    /\ point = Zero
    /\ obbA \in OBBSet(Diagonal(MaxCoord))
    /\ obbB \in OBBSet(Slice(MaxCoord)) \cup OBBExampleSet
    /\ ray = RaycastDefault
    /\ seg = SegmentDefault
    /\ sphere = SphereDefault
    /\ speed = Zero
    /\ NoCallYet

CallOBBIsColliding ==
    /\ Return("OBBIsColliding", "collide", OBB_IsColliding(obbA, obbB))
    /\ UNCHANGED <<line, shape, rangeA, rangeB, boxA, boxB, point, obbA, obbB, ray, seg, sphere, speed, hit, hit2, region>>

CallOBBIsCollidingBack ==
    /\ Return("OBBIsCollidingBack", "back", OBB_IsColliding(obbB, obbA))
    /\ UNCHANGED <<line, shape, rangeA, rangeB, boxA, boxB, point, obbA, obbB, ray, seg, sphere, speed, hit, hit2, region>>

NextOBB == CallOBBIsColliding \/ CallOBBIsCollidingBack

SpecOBB == InitOBB /\ [][NextOBB]_vars

\* C3: OBB-OBB collision is symmetric, a.IsColliding(b) = b.IsColliding(a), for
\* boxes at any origin (negative coordinates included) and of any extents,
\* through both the AABB broad phase and the 15-axis test.
C3_OBBSymmetric ==
    (Called("OBBIsColliding") /\ Called("OBBIsCollidingBack")) => ret.collide = ret.back

\* the boxes [origin - extents, origin + extents] overlap on the three axes
AlignedOverlap(a, b) ==
    \A i \in 1..3 :
        QLe(QAbs(QSub(a.m_origin[i], b.m_origin[i])), QAdd(a.m_extents[i], b.m_extents[i]))

\* C4: for two OBBs with angle (0,0,0), IsColliding returns true exactly when
\* the two axis-aligned boxes overlap on all three axes, and false otherwise;
\* unit-extent boxes at x = 0 and x = 3 do not collide, at x = 0 and x = 1.5
\* they do.
C4_AlignedAgreesWithOverlap ==
    (Called("OBBIsColliding") /\ obbA.m_angle = Zero /\ obbB.m_angle = Zero) =>
        (ret.collide <=> AlignedOverlap(obbA, obbB))

----------------------------------------------------------------------------
(* The probes: a ray (origin, unit direction, maxDistance) and the segment *)
(* from its origin to origin + direction * maxDistance.                    *)

MaxStart == 3
MaxDistance == 4

\* the six unit vectors along the axes
AxisSet == {Right, Up, Forward, VNeg(Right), VNeg(Up), VNeg(Forward)}

RaySet ==
    {Raycast(VecInt(o[1], o[2], o[3]), d, QInt(m)) :
        o \in Slice(MaxStart), d \in AxisSet, m \in 1..MaxDistance}

\* the segment that covers the same points as ray r
SegmentOf(r) ==
    Segment(r.m_origin, VAdd(r.m_origin, VScale(r.m_direction, r.m_maxDistance)))

----------------------------------------------------------------------------
(* SpecRayAABB: the ray and its segment against an AABB *)

InitRayAABB ==
    /\ boxA = AABBDefault
    /\ boxB \in {AABB(Zero, VecInt(2, 2, 2)), AABB(VecInt(1, 0, 0), VecInt(1, 2, 2))}
    /\ point = Zero
    /\ obbA = OBBDefault
    /\ obbB = OBBDefault
    /\ ray \in RaySet
    /\ seg = SegmentOf(ray)
    /\ sphere = SphereDefault
    /\ speed = Zero
    /\ NoCallYet

CallRaycastAABB ==
    \E r \in {RaycastAABB(ray, boxB, hit)} :
        /\ Return("RaycastAABB", "ray", r.ret)
        /\ hit' = r.hit
        /\ UNCHANGED <<line, shape, rangeA, rangeB, boxA, boxB, point, obbA, obbB, ray, seg, sphere, speed, hit2, region>>

CallSegmentAABB ==
    \E r \in {SegmentAABB(seg, boxB, hit2)} :
        /\ Return("SegmentAABB", "seg", r.ret)
        /\ hit2' = r.hit
        /\ UNCHANGED <<line, shape, rangeA, rangeB, boxA, boxB, point, obbA, obbB, ray, seg, sphere, speed, hit, region>>

NextRayAABB == CallRaycastAABB \/ CallSegmentAABB

SpecRayAABB == InitRayAABB /\ [][NextRayAABB]_vars

\* C5: a ray (origin o, unit direction d, any maxDistance m > 0) and the
\* segment from o to o + d*m return the same boolean against the same shape
\* and, on a hit, the same impact point and the same normal.
C5_RayAndSegmentAgree ==
    (Called("RaycastAABB") /\ Called("SegmentAABB")) =>
        /\ ret.ray = ret.seg
        /\ ret.ray => (hit.m_impact = hit2.m_impact /\ hit.m_normal = hit2.m_normal)

----------------------------------------------------------------------------
(* SpecRaySphere: the ray and its segment against a sphere *)

RadiusSet == {QNorm(1, 2), Q1}

SphereSet == {Sphere(VecInt(c, 0, 0), r) : c \in 0..1, r \in RadiusSet}

\* Raycast((0,0,-5), (0,0,1), 10)
RayExample == Raycast(VecInt(0, 0, -5), Forward, QInt(10))

InitRaySphere ==
    /\ boxA = AABBDefault
    /\ boxB = AABBDefault
    /\ point = Zero
    /\ obbA = OBBDefault
    /\ obbB = OBBDefault
    /\ ray \in RaySet \cup {RayExample}
    /\ seg = SegmentOf(ray)
    /\ sphere \in SphereSet
    /\ speed = Zero
    /\ NoCallYet

CallRaycastSphere ==
    \E r \in {RaycastSphere(ray, sphere, hit)} :
        /\ Return("RaycastSphere", "ray", r.ret)
        /\ hit' = r.hit
        /\ UNCHANGED <<line, shape, rangeA, rangeB, boxA, boxB, point, obbA, obbB, ray, seg, sphere, speed, hit2, region>>

CallSegmentSphere ==
    \E r \in {SegmentSphere(seg, sphere, hit2)} :
        /\ Return("SegmentSphere", "seg", r.ret)
        /\ hit2' = r.hit
        /\ UNCHANGED <<line, shape, rangeA, rangeB, boxA, boxB, point, obbA, obbB, ray, seg, sphere, speed, hit, region>>

NextRaySphere == CallRaycastSphere \/ CallSegmentSphere

SpecRaySphere == InitRaySphere /\ [][NextRaySphere]_vars

\* the distance from the ray's origin to the sphere's centre along the ray's
\* direction (the direction is an axis unit vector)
Along(r, s) == Dot(VSub(s.m_origin, r.m_origin), r.m_direction)

\* the ray starts outside the sphere, points at its centre and is long enough
\* to reach the near surface
AimedAtCentre(r, s) ==
    /\ QGt(Along(r, s), s.m_radius)
    /\ VAdd(r.m_origin, VScale(r.m_direction, Along(r, s))) = s.m_origin
    /\ QGe(r.m_maxDistance, QSub(Along(r, s), s.m_radius))

\* C8: a ray that starts outside a sphere, points at the sphere's centre and
\* has maxDistance at least (distance to centre - radius) is a hit whose impact
\* is the near surface point on the ray and whose normal is the unit vector
\* from the centre to that impact; Raycast((0,0,-5), (0,0,1), 10) against
\* Sphere((0,0,0), 1) gives true, impact (0,0,-1), normal (0,0,-1).
C8_RayAtCentreHitsNearSurface ==
    (Called("RaycastSphere") /\ AimedAtCentre(ray, sphere)) =>
        /\ ret.ray
        /\ hit.m_impact = VAdd(ray.m_origin,
                               VScale(ray.m_direction,
                                      QSub(Along(ray, sphere), sphere.m_radius)))
        /\ hit.m_normal = VNeg(ray.m_direction)

----------------------------------------------------------------------------
(* SpecSweep: a sphere moved by a displacement against an AABB, and the    *)
(* segment of its centre's travel against the same AABB                    *)

MaxSpeed == 5

\* centres (x, y/2, z/2): integer x, half-integer y
StartSet(p_heights) ==
    {<<QInt(x), QNorm(y, 2), QNorm(z, 2)>> :
        x \in -MaxStart..MaxStart, y \in -MaxStart..MaxStart, z \in p_heights}

\* displacements along one axis
AxisSpeedSet == {VScale(d, QInt(k)) : d \in AxisSet, k \in 1..MaxSpeed}

\* displacements along the diagonals of the xy plane
DiagonalSpeedSet ==
    {VecInt(i, j, 0) : i \in {-MaxSpeed, MaxSpeed}, j \in {-MaxSpeed, MaxSpeed}}

\* two cubes, met by spheres whose centre moves in the plane z = 0
CubeBoxSet == {AABB(Zero, VecInt(2, 2, 2)), AABB(VecInt(3, 0, 0), VecInt(2, 2, 2))}

\* a box whose diagonal has a rational length (6), met also from above its
\* top face by spheres that move along an axis: the capsules of the vertex and
\* edge regions lie along the diagonal
FlatBox == AABB(Zero, VecInt(4, 2, 4))

InitSweep ==
    /\ boxA = AABBDefault
    /\ \/ /\ boxB \in CubeBoxSet
          /\ sphere \in {Sphere(o, r) : o \in StartSet({0}), r \in {Q0} \cup RadiusSet}
          /\ speed \in AxisSpeedSet \cup DiagonalSpeedSet
       \/ /\ boxB = FlatBox
          /\ sphere \in {Sphere(o, r) : o \in StartSet({0, 5}), r \in {Q0} \cup RadiusSet}
          /\ speed \in AxisSpeedSet
    /\ point = Zero
    /\ obbA = OBBDefault
    /\ obbB = OBBDefault
    /\ ray = RaycastDefault
    /\ seg = Segment(sphere.m_origin, VAdd(sphere.m_origin, speed))
    /\ NoCallYet

CallIsMovingSphereColliding ==
    \E r \in {IsMovingSphereColliding(sphere, boxB, speed, hit)} :
        /\ Return("IsMovingSphereColliding", "sweep", r.ret)
        /\ hit' = r.hit
        /\ region' = r.region
        /\ UNCHANGED <<line, shape, rangeA, rangeB, boxA, boxB, point, obbA, obbB, ray, seg, sphere, speed, hit2>>

\* Segment(o, o + s).IsIntersecting(b, hit2)
CallSegmentTravel ==
    \E r \in {SegmentAABB(seg, boxB, hit2)} :
        /\ Return("SegmentTravel", "seg", r.ret)
        /\ hit2' = r.hit
        /\ UNCHANGED <<line, shape, rangeA, rangeB, boxA, boxB, point, obbA, obbB, ray, seg, sphere, speed, hit, region>>

NextSweep == CallIsMovingSphereColliding \/ CallSegmentTravel

SpecSweep == InitSweep /\ [][NextSweep]_vars

\* C6: for a sphere of radius 0 at o, every displacement s and every AABB b,
\* the swept test returns the same boolean as Segment(o, o+s) against b and,
\* when true, the same impact, also when the travel is parallel to one or two
\* axes of the box.
C6_ZeroRadiusSweepIsSegment ==
    (Called("IsMovingSphereColliding") /\ Called("SegmentTravel")
        /\ sphere.m_radius = Q0) =>
        /\ ret.sweep = ret.seg
        /\ ret.sweep => hit.m_impact = hit2.m_impact

\* the sphere moves along axis i only, straight at the interior of the face
\* of boxB it meets first, starts clear of the box and gets at least as far as
\* touching that face
TowardFace(i) ==
    /\ QGt(sphere.m_radius, Q0)
    /\ speed[i] # Q0
    /\ \A j \in 1..3 : j # i =>
           /\ speed[j] = Q0
           /\ QLt(boxB.m_min[j], sphere.m_origin[j])
           /\ QLt(sphere.m_origin[j], boxB.m_max[j])
    /\ IF QGt(speed[i], Q0)
       THEN /\ QLt(sphere.m_origin[i], QSub(boxB.m_min[i], sphere.m_radius))
            /\ QGe(QAdd(sphere.m_origin[i], speed[i]), QSub(boxB.m_min[i], sphere.m_radius))
       ELSE /\ QGt(sphere.m_origin[i], QAdd(boxB.m_max[i], sphere.m_radius))
            /\ QLe(QAdd(sphere.m_origin[i], speed[i]), QAdd(boxB.m_max[i], sphere.m_radius))

\* the coordinate of the face met, and of the sphere's centre when it touches
FaceCoordinate(i) == IF QGt(speed[i], Q0) THEN boxB.m_min[i] ELSE boxB.m_max[i]
CentreAtContact(i) ==
    IF QGt(speed[i], Q0) THEN QSub(boxB.m_min[i], sphere.m_radius)
    ELSE QAdd(boxB.m_max[i], sphere.m_radius)

\* Sphere((0,0,0), 0.5), displacement (5,0,0), AABB((3,0,0), (2,2,2))
C7Example ==
    /\ sphere = Sphere(Zero, QNorm(1, 2))
    /\ speed = VecInt(5, 0, 0)
    /\ boxB = AABB(VecInt(3, 0, 0), VecInt(2, 2, 2))

\* C7 (as the code has it): when a sphere of radius r > 0 moves along one axis
\* straight toward the interior of a face of an AABB and reaches it, the swept
\* test returns true through the face branch and the impact is the point of
\* the face itself: its coordinate on that axis is the face coordinate, the
\* other two are the centre's; in the example the impact has x = 2.
C7_FaceImpactOnTheFace ==
    /\ \A i \in 1..3 :
           (Called("IsMovingSphereColliding") /\ TowardFace(i)) =>
               /\ ret.sweep
               /\ region = "face"
               /\ hit.m_impact[i] = FaceCoordinate(i)
               /\ \A j \in 1..3 : j # i => hit.m_impact[j] = sphere.m_origin[j]
    /\ (Called("IsMovingSphereColliding") /\ C7Example) => hit.m_impact[1] = Q2

\* C7 (as stated): in the same case the impact coordinate on that axis is the
\* face coordinate minus r on the approach side; in the example the impact
\* has x = 1.5.
C7_FaceImpactMinusRadius ==
    /\ \A i \in 1..3 :
           (Called("IsMovingSphereColliding") /\ TowardFace(i)) =>
               /\ ret.sweep
               /\ region = "face"
               /\ hit.m_impact[i] = CentreAtContact(i)
    /\ (Called("IsMovingSphereColliding") /\ C7Example) =>
           hit.m_impact[1] = QNorm(3, 2)

\* the example of C7 after the call
C7_Witness ==
    /\ C7Example
    /\ TowardFace(1)
    /\ Called("IsMovingSphereColliding")
    /\ ret.sweep
    /\ region = "face"
    /\ hit.m_impact = VecInt(2, 0, 0)

\* C10: whenever the swept test returns false after the expanded-box test
\* produced a raw hit (vertex or edge region, no capsule hit), hit.impact and
\* hit.normal are both the zero vector on return.
C10_FalseLeavesHitZeroed ==
    (Called("IsMovingSphereColliding") /\ ~ret.sweep /\ region \in {"vertex", "edge"}) =>
        (hit.m_impact = Zero /\ hit.m_normal = Zero)

----------------------------------------------------------------------------
(* SpecStubs: the tests that are not implemented, each made once on the   *)
(* receivers and on another shape of any class, with an Intersection that *)
(* an earlier test may have written.                                      *)

StubOrigins == {Zero, One}

\* the other shape: two of every class
OtherSet ==
    UNION {{Shape("Plane", Plane(Up, c[1])),
            Shape("Quad", Quad(c, <<Q1, Q2>>)),
            Shape("OBB", OBB(c, One, VecInt(0, 0, 90))),
            Shape("AABB", AABB(c, One)),
            Shape("Sphere", Sphere(c, Q1)),
            Shape("Cylinder", Cylinder(c, Up, Q2, Q1)),
            Shape("InfiniteCylinder", InfiniteCylinder(c, Up, Q1)),
            Shape("Capsule", CapsuleBetween(c, VAdd(c, Up), Q1))} : c \in StubOrigins}

\* the Intersection handed to the tests: fresh, or written by an earlier hit
EarlierHitSet == {IntersectionDefault, Intersection(One, Up), Intersection(VecInt(0, 0, -1), VNeg(Forward))}

InitStubs ==
    /\ boxA \in {AABBDefault, AABB(One, One)}
    /\ obbA \in {OBBDefault, OBB(One, One, VecInt(0, 0, 90))}
    /\ sphere \in {SphereDefault, Sphere(One, Q2)}
    /\ speed \in {Zero, Forward}
    /\ line \in {LineDefault, Line(One, Up)}
    /\ shape \in OtherSet
    /\ hit \in EarlierHitSet
    /\ hit2 = hit
    /\ boxB = AABBDefault
    /\ obbB = OBBDefault
    /\ point = Zero
    /\ ray = RaycastDefault
    /\ seg = SegmentDefault
    /\ rangeA = Range(Q0, Q0)
    /\ rangeB = Range(Q0, Q0)
    /\ ret = RetDefault
    /\ region = "none"
    /\ pc = {}

\* boxA.IsColliding(shape)
CallAABBIsCollidingOther ==
    /\ shape.kind \in {"OBB", "Sphere", "Cylinder", "InfiniteCylinder", "Capsule"}
    /\ Return("AABB::IsColliding", "aabbOther", AABB_IsCollidingOther(boxA, shape.is))
    /\ UNCHANGED <<line, shape, rangeA, rangeB, boxA, boxB, point, obbA, obbB, ray, seg, sphere, speed, hit, hit2, region>>

\* obbA.IsColliding(shape)
CallOBBIsCollidingOther ==
    /\ shape.kind \in {"AABB", "Sphere", "Cylinder", "InfiniteCylinder", "Capsule"}
    /\ Return("OBB::IsColliding", "obbOther", OBB_IsCollidingOther(obbA, shape.is))
    /\ UNCHANGED <<line, shape, rangeA, rangeB, boxA, boxB, point, obbA, obbB, ray, seg, sphere, speed, hit, hit2, region>>

\* sphere.IsColliding(shape)
CallSphereIsColliding ==
    /\ shape.kind \in {"Sphere", "OBB", "AABB", "Cylinder", "InfiniteCylinder", "Capsule"}
    /\ Return("Sphere::IsColliding", "sphereOther", Sphere_IsColliding(sphere, shape.is))
    /\ UNCHANGED <<line, shape, rangeA, rangeB, boxA, boxB, point, obbA, obbB, ray, seg, sphere, speed, hit, hit2, region>>

\* sphere.IsMovingSphereColliding(shape, speed, hit)
CallIsMovingSphereCollidingOther ==
    /\ shape.kind \in {"Sphere", "OBB", "Cylinder", "InfiniteCylinder", "Capsule"}
    /\ \E r \in {IsMovingSphereCollidingOther(sphere, shape.is, speed, hit)} :
           /\ Return("Sphere::IsMovingSphereColliding", "sweepOther", r.ret)
           /\ hit' = r.hit
    /\ UNCHANGED <<line, shape, rangeA, rangeB, boxA, boxB, point, obbA, obbB, ray, seg, sphere, speed, hit2, region>>

\* line.IsIntersecting(shape, hit2)
CallLineIsIntersecting ==
    /\ shape.kind \in {"Plane", "Quad", "OBB", "AABB", "Sphere", "Cylinder", "InfiniteCylinder", "Capsule"}
    /\ \E r \in {Line_IsIntersecting(line, shape.is, hit2)} :
           /\ Return("Line::IsIntersecting", "line", r.ret)
           /\ hit2' = r.hit
    /\ UNCHANGED <<line, shape, rangeA, rangeB, boxA, boxB, point, obbA, obbB, ray, seg, sphere, speed, hit, region>>

NextStubs ==
    \/ CallAABBIsCollidingOther
    \/ CallOBBIsCollidingOther
    \/ CallSphereIsColliding
    \/ CallIsMovingSphereCollidingOther
    \/ CallLineIsIntersecting

SpecStubs == InitStubs /\ [][NextStubs]_vars

\* C11: every test that is not implemented returns false, for every receiver
\* and every other shape, and the ones that take an Intersection& leave it
\* as it was before the call.
C11_StubsReturnFalseAndKeepHit ==
    [][/\ CallAABBIsCollidingOther => ~ret'.aabbOther
       /\ CallOBBIsCollidingOther => ~ret'.obbOther
       /\ CallSphereIsColliding => ~ret'.sphereOther
       /\ CallIsMovingSphereCollidingOther => (~ret'.sweepOther /\ hit' = hit)
       /\ CallLineIsIntersecting => (~ret'.line /\ hit2' = hit2)]_vars

\* every test open to a capsule has been made with an Intersection that holds an earlier hit
C11_Witness ==
    /\ shape.kind = "Capsule"
    /\ pc = {"AABB::IsColliding", "OBB::IsColliding", "Sphere::IsColliding",
             "Sphere::IsMovingSphereColliding", "Line::IsIntersecting"}
    /\ hit = Intersection(One, Up)
    /\ hit2 = hit

----------------------------------------------------------------------------
(* SpecRange: r.IsOverlapping(s) and s.IsOverlapping(r) on two ranges      *)
(* built by Range(min, max) from any two floats, in either order.          *)

MaxEnd == 2

\* the floats drawn for the ends: whole numbers, the infinities and NaN
EndSet == {QInt(k) : k \in -MaxEnd..MaxEnd} \cup {<<1, 0>>, <<-1, 0>>, <<0, 0>>}

RangeSet == {Range(a, b) : a \in EndSet, b \in EndSet}

InitRange ==
    /\ rangeA \in RangeSet
    /\ rangeB \in RangeSet
    /\ boxA = AABBDefault
    /\ boxB = AABBDefault
    /\ point = Zero
    /\ obbA = OBBDefault
    /\ obbB = OBBDefault
    /\ ray = RaycastDefault
    /\ seg = SegmentDefault
    /\ sphere = SphereDefault
    /\ speed = Zero
    /\ hit = IntersectionDefault
    /\ hit2 = IntersectionDefault
    /\ ret = RetDefault
    /\ region = "none"
    /\ line = LineDefault
    /\ shape = NoShape
    /\ pc = {}

\* rangeA.IsOverlapping(rangeB)
CallIsOverlapping ==
    /\ Return("IsOverlapping", "overlap", IsOverlapping(rangeA, rangeB))
    /\ UNCHANGED <<line, shape, rangeA, rangeB, boxA, boxB, point, obbA, obbB, ray, seg, sphere, speed, hit, hit2, region>>

\* rangeB.IsOverlapping(rangeA)
CallIsOverlappingBack ==
    /\ Return("IsOverlappingBack", "overlapBack", IsOverlapping(rangeB, rangeA))
    /\ UNCHANGED <<line, shape, rangeA, rangeB, boxA, boxB, point, obbA, obbB, ray, seg, sphere, speed, hit, hit2, region>>

NextRange == CallIsOverlapping \/ CallIsOverlappingBack

SpecRange == InitRange /\ [][NextRange]_vars

\* a < b on floats, from the numerators and denominators: false when either is NaN
Below(a, b) ==
    /\ a # <<0, 0>> /\ b # <<0, 0>>
    /\ IF a[2] = 0 \/ b[2] = 0
       THEN (a = <<-1, 0>> /\ b # <<-1, 0>>) \/ (b = <<1, 0>> /\ a # <<1, 0>>)
       ELSE a[1] * b[2] < b[1] * a[2]

\* C12: r.IsOverlapping(s) is false exactly when r.max < s.min or
\* r.min > s.max; ranges that only touch (r.max == s.min) overlap; and
\* r.IsOverlapping(s) == s.IsOverlapping(r).
C12_OverlapUnlessApart ==
    /\ Called("IsOverlapping") =>
          /\ ~ret.overlap <=> (Below(rangeA.m_max, rangeB.m_min) \/ Below(rangeB.m_max, rangeA.m_min))
          /\ (rangeA.m_max = rangeB.m_min /\ ~IsNaN(rangeA.m_max) /\ ~Below(rangeB.m_max, rangeA.m_min)) => ret.overlap
    /\ (Called("IsOverlapping") /\ Called("IsOverlappingBack")) => ret.overlap = ret.overlapBack

\* [0, 1] and [1, 2] touch at 1, and both calls were made
C12_Witness ==
    /\ rangeA = Range(Q0, Q1)
    /\ rangeB = Range(Q1, Q2)
    /\ Called("IsOverlapping") /\ Called("IsOverlappingBack")
    /\ ret.overlap /\ ret.overlapBack

----------------------------------------------------------------------------
(* SpecSAT: Range::SAT(axis, box) on boxes on either side of the origin    *)

MaxShift == 3

\* the axes projected on: the axes of the world, in both directions
SATAxisSet == {Right, Up, Forward, VNeg(Right), VNeg(Up), VNeg(Forward)}

\* boxes along the x axis, some wholly on one side of the origin
SATBoxSet == {OBB(VecInt(x, 0, 0), e, a) : x \in -MaxShift..MaxShift, e \in ExtentSet, a \in AngleSet}

InitSAT ==
    /\ point \in SATAxisSet
    /\ obbA \in SATBoxSet
    /\ rangeA = Range(FltMax, FltMin)
    /\ rangeB = Range(Q0, Q0)
    /\ boxA = AABBDefault
    /\ boxB = AABBDefault
    /\ obbB = OBBDefault
    /\ ray = RaycastDefault
    /\ seg = SegmentDefault
    /\ sphere = SphereDefault
    /\ speed = Zero
    /\ hit = IntersectionDefault
    /\ hit2 = IntersectionDefault
    /\ ret = RetDefault
    /\ region = "none"
    /\ line = LineDefault
    /\ shape = NoShape
    /\ pc = {}

\* rangeA = Range::SAT(point, obbA)
CallSAT ==
    /\ ~Called("SAT")
    /\ rangeA' = SAT(point, obbA)
    /\ pc' = pc \cup {"SAT"}
    /\ UNCHANGED <<line, shape, rangeB, boxA, boxB, point, obbA, obbB, ray, seg, sphere, speed, hit, hit2, ret, region>>

NextSAT == CallSAT

SpecSAT == InitSAT /\ [][NextSAT]_vars

\* lo is the least and hi the greatest of the projections of the vertices on the axis
Extremes(p_axis, vertices, lo, hi) ==
    /\ \A i \in 1..Len(vertices) : QLe(lo, Dot(p_axis, vertices[i])) /\ QLe(Dot(p_axis, vertices[i]), hi)
    /\ \E i \in 1..Len(vertices) : lo = Dot(p_axis, vertices[i])
    /\ \E i \in 1..Len(vertices) : hi = Dot(p_axis, vertices[i])

\* C13: Range::SAT(a, o) returns m_min = the minimum and m_max = the
\* maximum of dot(a, v) over the eight vertices v of o, whatever the sign
\* of the projections; hence m_min <= m_max.
C13_SATIsMinAndMaxOfProjections ==
    Called("SAT") =>
        /\ Extremes(point, OBB_GetVertices(obbA), rangeA.m_min, rangeA.m_max)
        /\ QLe(rangeA.m_min, rangeA.m_max)

----------------------------------------------------------------------------
(* SpecCorner: Corner(n) for each n in 0..7 and GetVertices() on one AABB  *)

\* boxes with three different sides
CornerBoxSet == {AABB(VecInt(x, x, x), VecInt(2 * k, 2 * k + 2, 2 * k + 4)) : x \in -MaxCoord..MaxCoord, k \in 1..MaxSize}

CornerName(n) == <<"Corner(0)", "Corner(1)", "Corner(2)", "Corner(3)",
                   "Corner(4)", "Corner(5)", "Corner(6)", "Corner(7)">>[n + 1]

InitCorner ==
    /\ boxA \in CornerBoxSet
    /\ boxB = AABBDefault
    /\ point = Zero
    /\ obbA = OBBDefault
    /\ obbB = OBBDefault
    /\ ray = RaycastDefault
    /\ seg = SegmentDefault
    /\ sphere = SphereDefault
    /\ speed = Zero
    /\ NoCallYet

\* boxA.Corner(n)
CallCorner ==
    \E n \in 0..7 :
        /\ Return(CornerName(n), "corner", [ret.corner EXCEPT ![n] = Corner(boxA, n)])
        /\ UNCHANGED <<line, shape, rangeA, rangeB, boxA, boxB, point, obbA, obbB, ray, seg, sphere, speed, hit, hit2, region>>

\* boxA.GetVertices()
CallGetVertices ==
    /\ Return("GetVertices", "vertices", AABB_GetVertices(boxA))
    /\ UNCHANGED <<line, shape, rangeA, rangeB, boxA, boxB, point, obbA, obbB, ray, seg, sphere, speed, hit, hit2, region>>

NextCorner == CallCorner \/ CallGetVertices

SpecCorner == InitCorner /\ [][NextCorner]_vars

\* whether bit k of n is set
Bit(n, k) == (n \div (2 ^ k)) % 2 = 1

\* C14: Corner(n) has x = max.x if bit 0 of n is set else min.x, y by bit 1
\* and z by bit 2; so the eight values of n give the eight corners of the
\* box, the same set of points as GetVertices().
C14_CornerByBits ==
    /\ \A n \in 0..7 :
          Called(CornerName(n)) =>
              ret.corner[n] = Members([i \in 1..3 |-> IF Bit(n, i - 1) THEN boxA.m_max[i] ELSE boxA.m_min[i]])
    /\ ((\A n \in 0..7 : Called(CornerName(n))) /\ Called("GetVertices")) =>
          {ret.corner[n] : n \in 0..7} = {ret.vertices[i] : i \in 1..8}

----------------------------------------------------------------------------
(* SpecExpand: a box built by either constructor, then copied and expanded *)
(* by a float and by a vector, each once, in any order.  boxB keeps the    *)
(* box as it was before the last Expand and speed the amount passed.       *)

MaxAmount == 2

\* the amounts: halves from -1/2 to MaxAmount, so that a box can shrink
AmountSet == {QNorm(k, 2) : k \in -1..(2 * MaxAmount)}

BuiltSet == {AABBDefault} \cup {AABB(VecInt(x, 0, 0), VecInt(k, k, 2 * k)) : x \in -MaxCoord..MaxCoord, k \in 1..MaxSize}

InitExpand ==
    /\ boxA \in BuiltSet
    /\ boxB = boxA
    /\ point = Zero
    /\ obbA = OBBDefault
    /\ obbB = OBBDefault
    /\ ray = RaycastDefault
    /\ seg = SegmentDefault
    /\ sphere = SphereDefault
    /\ speed = Zero
    /\ NoCallYet

\* boxA.Expand(k)
CallExpand ==
    \E k \in AmountSet :
        /\ ~Called("Expand")
        /\ boxA' = Expand(boxA, k)
        /\ boxB' = boxA
        /\ speed' = <<k, k, k>>
        /\ pc' = pc \cup {"Expand"}
        /\ UNCHANGED <<line, shape, rangeA, rangeB, point, obbA, obbB, ray, seg, sphere, hit, hit2, ret, region>>

\* boxA.Expand(v)
CallExpandBy ==
    \E k \in AmountSet, j \in AmountSet :
        /\ ~Called("ExpandBy")
        /\ boxA' = ExpandBy(boxA, <<k, j, Q1>>)
        /\ boxB' = boxA
        /\ speed' = <<k, j, Q1>>
        /\ pc' = pc \cup {"ExpandBy"}
        /\ UNCHANGED <<line, shape, rangeA, rangeB, point, obbA, obbB, ray, seg, sphere, hit, hit2, ret, region>>

\* boxA = AABB(boxA)
CallCopy ==
    /\ ~Called("Copy")
    /\ boxA' = AABBCopy(boxA)
    /\ pc' = pc \cup {"Copy"}
    /\ UNCHANGED <<line, shape, rangeA, rangeB, boxB, point, obbA, obbB, ray, seg, sphere, speed, hit, hit2, ret, region>>

NextExpand == CallExpand \/ CallExpandBy \/ CallCopy

SpecExpand == InitExpand /\ [][NextExpand]_vars

\* C15: every AABB reached from a constructor by copies and Expand calls
\* has max == origin + extents, min == origin - extents and
\* size == 2 * extents; an Expand adds its amount to every extent and
\* leaves the origin where it was.
C15_MembersAgree ==
    /\ boxA.m_max = VAdd(boxA.m_origin, boxA.m_extents)
    /\ boxA.m_min = VSub(boxA.m_origin, boxA.m_extents)
    /\ boxA.m_size = VScale(boxA.m_extents, Q2)
    /\ (Called("Expand") \/ Called("ExpandBy")) =>
          /\ boxA.m_extents = VAdd(boxB.m_extents, speed)
          /\ boxA.m_origin = boxB.m_origin

----------------------------------------------------------------------------
(* SpecProbe: a ray and the segment over the same points against a shape   *)
(* of each class.  The rays include those of zero direction and of zero    *)
(* maxDistance; the planes and the quads include ones away from the origin;*)
(* the cylinders stand along y and along x, one with a cap in the plane    *)
(* y = 0.                                                                  *)

MaxReach == 2

\* starts in the plane z = 0, on and next to the x axis
ProbeStartSet == {VecInt(x, y, 0) : x \in -MaxReach..MaxReach, y \in -1..1}

\* no direction, the axes in both directions, and two directions across the axes
ProbeDirectionSet == {Zero} \cup AxisSet \cup {VecInt(1, -1, 0), VecInt(0, -1, 1)}

\* a shallow ray that comes down across the y axis above the plane y = 0
ShallowRay == Raycast(VecInt(-2, 1, 0), VecInt(4, -1, 0), Q2)

ProbeRaySet ==
    {Raycast(o, d, QInt(m)) : o \in ProbeStartSet, d \in ProbeDirectionSet, m \in 0..MaxReach}
        \cup {ShallowRay}

\* the capsule probed, built from its two end points
CapsuleEndA == VecInt(0, -1, 0)
CapsuleEndB == VecInt(0, 1, 0)
ProbedCapsule == CapsuleBetween(CapsuleEndA, CapsuleEndB, Q1)

ProbedSet ==
    {Shape("Plane", Plane(Up, Q0)), Shape("Plane", Plane(Up, Q1)), Shape("Plane", Plane(Right, QInt(-1))),
     Shape("Quad", Quad(Zero, <<Q2, Q2>>)), Shape("Quad", Quad(VecInt(2, 0, 0), <<Q2, Q2>>)),
     Shape("Quad", Quad(VecInt(0, -1, 0), <<Q2, QInt(4)>>)),
     Shape("OBB", OBB(Zero, One, Zero)), Shape("OBB", OBB(VecInt(1, 0, 0), One, VecInt(0, 0, 90))),
     Shape("AABB", AABB(Zero, VecInt(2, 2, 2))), Shape("AABB", AABB(VecInt(1, 0, 0), VecInt(1, 2, 2))),
     Shape("Sphere", Sphere(Zero, Q1)), Shape("Sphere", Sphere(VecInt(1, 0, 0), QNorm(1, 2))),
     Shape("Cylinder", Cylinder(Zero, Up, Q2, Q1)), Shape("Cylinder", Cylinder(Zero, Right, Q2, Q1)),
     Shape("Cylinder", Cylinder(VecInt(0, -1, 0), Up, Q2, Q1)),
     Shape("InfiniteCylinder", InfiniteCylinder(Zero, Up, Q1)),
     Shape("InfiniteCylinder", InfiniteCylinder(VecInt(1, 0, 0), Forward, QNorm(1, 2))),
     Shape("Capsule", ProbedCapsule)}

InitProbe ==
    /\ ray \in ProbeRaySet
    /\ seg = SegmentOf(ray)
    /\ shape \in ProbedSet
    /\ boxA = AABBDefault
    /\ boxB = AABBDefault
    /\ point = Zero
    /\ obbA = OBBDefault
    /\ obbB = OBBDefault
    /\ sphere = SphereDefault
    /\ speed = Zero
    /\ hit = IntersectionDefault
    /\ hit2 = IntersectionDefault
    /\ ret = RetDefault
    /\ region = "none"
    /\ line = LineDefault
    /\ rangeA = Range(Q0, Q0)
    /\ rangeB = Range(Q0, Q0)
    /\ pc = {}

\* ray.IsIntersecting(shape, hit)
CallRaycast ==
    \E r \in {RaycastIsIntersecting(ray, shape, hit)} :
        /\ Return("Raycast", "ray", r.ret)
        /\ hit' = r.hit
        /\ UNCHANGED <<line, shape, rangeA, rangeB, boxA, boxB, point, obbA, obbB, ray, seg, sphere, speed, hit2, region>>

\* seg.IsIntersecting(shape, hit2)
CallSegment ==
    \E r \in {SegmentIsIntersecting(seg, shape, hit2)} :
        /\ Return("Segment", "seg", r.ret)
        /\ hit2' = r.hit
        /\ UNCHANGED <<line, shape, rangeA, rangeB, boxA, boxB, point, obbA, obbB, ray, seg, sphere, speed, hit, region>>

NextProbe == CallRaycast \/ CallSegment

SpecProbe == InitProbe /\ [][NextProbe]_vars

\* the vector the ray covers
RayVector(r) == VScale(r.m_direction, r.m_maxDistance)

\* the probe covers no distance
Degenerate(p_vector) == p_vector = Zero

\* b * b - 4 * a * c of the sphere test on a probe from p_start along p_vector
SphereDelta(p_start, p_vector, s) ==
    QSub(QMul(QMul(Q2, Dot(VSub(s.m_origin, p_start), p_vector)),
              QMul(Q2, Dot(VSub(s.m_origin, p_start), p_vector))),
         QMul(QMul(QInt(4), GetSqrMagnitude(p_vector)),
              QSub(GetSqrMagnitude(VSub(s.m_origin, p_start)), QMul(s.m_radius, s.m_radius))))

\* b * b - 4 * a * c of the infinite-cylinder test: the sphere's equation
\* on the parts of the vectors across the axis of the cylinder
CylinderDelta(p_start, p_vector, c) ==
    LET Across(v) == VSub(v, VScale(c.m_direction, Dot(v, c.m_direction)))
    IN  SphereDelta(Across(p_start), Across(p_vector), Sphere(Across(c.m_origin), c.m_radius))

\* the test on a probe from p_start along p_vector has to be a miss
MustMiss(p_start, p_vector) ==
    \/ Degenerate(p_vector)
    \/ shape.kind = "Plane" /\ Dot(p_vector, shape.is.m_normal) = Q0
    \/ shape.kind = "Sphere" /\ QLt(SphereDelta(p_start, p_vector, shape.is), Q0)
    \/ shape.kind = "InfiniteCylinder" /\ QLt(CylinderDelta(p_start, p_vector, shape.is), Q0)

\* C16: a Segment with ptA == ptB and a Raycast with zero direction or zero
\* maxDistance return false against every shape; a probe perpendicular to
\* the normal of a plane returns false against that plane; a sphere or
\* infinite-cylinder test whose discriminant is negative returns false.
C16_DegenerateProbesMiss ==
    /\ (Called("Segment") /\ MustMiss(seg.m_ptA, GetAB(seg))) => ~ret.seg
    /\ (Called("Raycast") /\ MustMiss(ray.m_origin, RayVector(ray))) => ~ret.ray
    /\ (Called("Raycast") /\ (ray.m_direction = Zero \/ ray.m_maxDistance = Q0)) => ~ret.ray

\* both probes start at the centre of the unit sphere and cover no distance
C16_Witness ==
    /\ shape = Shape("Sphere", Sphere(Zero, Q1))
    /\ ray = Raycast(Zero, Up, Q0)
    /\ seg.m_ptA = seg.m_ptB
    /\ Called("Segment") /\ Called("Raycast")
    /\ ~ret.seg /\ ~ret.ray

\* the t at which the probe from p_start along p_vector meets the plane:
\* dot(normal, start + t * vector) + distance = 0
PlaneRoot(p_start, p_vector, p_plane) ==
    QDiv(QNeg(QAdd(Dot(p_plane.m_normal, p_start), p_plane.m_distance)),
         Dot(p_plane.m_normal, p_vector))

\* the probe is not parallel to the plane and meets it between its two ends
MeetsPlane(p_start, p_vector, p_plane) ==
    /\ Dot(p_plane.m_normal, p_vector) # Q0
    /\ QGe(PlaneRoot(p_start, p_vector, p_plane), Q0)
    /\ QLe(PlaneRoot(p_start, p_vector, p_plane), Q1)

\* what the plane test has to report for the probe from p_start along p_vector
PlaneReport(p_start, p_vector, p_plane, p_ret, p_hit) ==
    /\ p_ret <=> MeetsPlane(p_start, p_vector, p_plane)
    /\ p_ret =>
          /\ p_hit.m_impact = VAdd(p_start, VScale(p_vector, PlaneRoot(p_start, p_vector, p_plane)))
          /\ GetSide(p_plane, p_hit.m_impact) = Q0
          /\ QLt(Dot(p_vector, p_hit.m_normal), Q0)

\* C17: Segment and Raycast against a Plane return true exactly when
\* dot(normal, start + t * v) + distance = 0 has its root t in [0, 1]; the
\* impact is start + t * v and satisfies the plane's equation, also for a
\* plane with distance != 0 and a start off the origin; the normal reported
\* is the one of +-normal that faces the probe, dot(v, reported) < 0.
C17_PlaneRootInUnitInterval ==
    shape.kind = "Plane" =>
        /\ Called("Segment") => PlaneReport(seg.m_ptA, GetAB(seg), shape.is, ret.seg, hit2)
        /\ Called("Raycast") => PlaneReport(ray.m_origin, RayVector(ray), shape.is, ret.ray, hit)

\* the point is inside the box or on its surface
InsideOrOn(p_aabb, p_pt) ==
    \A i \in 1..3 : QLe(p_aabb.m_min[i], p_pt[i]) /\ QLe(p_pt[i], p_aabb.m_max[i])

\* C18: Segment and Raycast against an AABB return false, and leave the
\* Intersection as it was, for every probe that starts inside the box or
\* on its surface, whatever its direction and length.
C18_StartInsideBoxMisses ==
    [][/\ (CallSegment /\ shape.kind = "AABB" /\ InsideOrOn(shape.is, seg.m_ptA)) =>
              (~ret'.seg /\ hit2' = hit2)
       /\ (CallRaycast /\ shape.kind = "AABB" /\ InsideOrOn(shape.is, ray.m_origin)) =>
              (~ret'.ray /\ hit' = hit)]_vars

\* both probes start on the face x = 1 of the box and run through it
C18_Witness ==
    /\ shape = Shape("AABB", AABB(Zero, VecInt(2, 2, 2)))
    /\ ray = Raycast(VecInt(1, 0, 0), VNeg(Right), Q2)
    /\ Called("Segment") /\ Called("Raycast")
    /\ ~ret.seg /\ ~ret.ray
    /\ hit = IntersectionDefault /\ hit2 = IntersectionDefault

\* the smaller root of |start + t * vector - origin|^2 = radius^2
SmallerRoot(p_start, p_vector, s) ==
    QDiv(QSub(QNeg(QMul(Q2, Dot(VSub(p_start, s.m_origin), p_vector))),
              QSqrt(SphereDelta(p_start, p_vector, s))),
         QMul(Q2, GetSqrMagnitude(p_vector)))

\* the equation has roots and the model's scalars hold them exactly
ExactRoots(p_start, p_vector, s) ==
    /\ p_vector # Zero
    /\ QGe(SphereDelta(p_start, p_vector, s), Q0)
    /\ QMul(QSqrt(SphereDelta(p_start, p_vector, s)), QSqrt(SphereDelta(p_start, p_vector, s)))
           = SphereDelta(p_start, p_vector, s)

\* what the sphere test has to report for the probe from p_start along p_vector
SphereReport(p_start, p_vector, s, p_ret, p_hit) ==
    ExactRoots(p_start, p_vector, s) =>
        /\ p_ret =>
              /\ p_hit.m_impact = VAdd(p_start, VScale(p_vector, SmallerRoot(p_start, p_vector, s)))
              /\ DistanceSqr(p_hit.m_impact, s.m_origin) = QMul(s.m_radius, s.m_radius)
        /\ (QGe(SmallerRoot(p_start, p_vector, s), Q0) /\ QLe(SmallerRoot(p_start, p_vector, s), Q1)) => p_ret

\* C19: whenever Segment or Raycast against a Sphere returns true, the
\* impact is start + t * v with t the smaller root of the quadratic, in
\* [0, 1], so |impact - origin|^2 == radius^2; and the test returns true
\* for every probe whose smaller root is in [0, 1].
C19_SphereImpactOnTheSphere ==
    shape.kind = "Sphere" =>
        /\ Called("Segment") => SphereReport(seg.m_ptA, GetAB(seg), shape.is, ret.seg, hit2)
        /\ Called("Raycast") => SphereReport(ray.m_origin, RayVector(ray), shape.is, ret.ray, hit)

\* p is within half the size of the quad from its origin, along right and along forward
WithinQuad(q, p) ==
    /\ QLe(QAbs(Dot(VSub(p, q.m_origin), q.m_right)), QDiv(q.m_size[1], Q2))
    /\ QLe(QAbs(Dot(VSub(p, q.m_origin), q.m_forward)), QDiv(q.m_size[2], Q2))

\* what the quad test has to return, given what the plane test on the plane of the quad reports
QuadReport(q, p_plane, p_ret) == p_ret <=> (p_plane.ret /\ WithinQuad(q, p_plane.hit.m_impact))

\* C20: Segment and Raycast against a Quad return true exactly when the
\* plane test against the plane of the quad (normal up, through the origin
\* of the quad) hits and its impact p has |dot(p - origin, right)| <=
\* size.x / 2 and |dot(p - origin, forward)| <= size.y / 2, wherever the
\* quad is.
C20_QuadIsPlaneHitWithinSides ==
    shape.kind = "Quad" =>
        /\ Called("Segment") =>
              QuadReport(shape.is,
                         SegmentPlane(seg, PlaneAt(shape.is.m_up, shape.is.m_origin), IntersectionDefault),
                         ret.seg)
        /\ Called("Raycast") =>
              QuadReport(shape.is,
                         RaycastPlane(ray, PlaneAt(shape.is.m_up, shape.is.m_origin), IntersectionDefault),
                         ret.ray)


\* the two caps of a cylinder: the plane of each, facing away from the
\* cylinder, and its centre
Caps(c) ==
    {[plane  |-> PlaneAt(VScale(c.m_direction, QInt(k)),
                         VAdd(c.m_origin, VScale(c.m_direction, QMul(QInt(k), QDiv(c.m_height, Q2))))),
      centre |-> VAdd(c.m_origin, VScale(c.m_direction, QMul(QInt(k), QDiv(c.m_height, Q2))))]
        : k \in {-1, 1}}

\* the point is strictly between the two capping planes
BetweenCaps(c, p_pt) == \A cap \in Caps(c) : QLt(GetSide(cap.plane, p_pt), Q0)

\* the probe from p_start along p_vector starts on or beyond the cap, ends
\* between the caps and crosses the cap's plane within the radius of its centre
EntersByCap(p_start, p_vector, c, p_cap) ==
    /\ QGe(GetSide(p_cap.plane, p_start), Q0)
    /\ BetweenCaps(c, VAdd(p_start, p_vector))
    /\ QLe(DistanceSqr(VAdd(p_start, VScale(p_vector, PlaneRoot(p_start, p_vector, p_cap.plane))),
                       p_cap.centre),
           QMul(c.m_radius, c.m_radius))

\* what the cylinder test has to report for the probe from p_start along p_vector
CapReport(p_start, p_vector, c, p_ret, p_hit) ==
    /\ ~BetweenCaps(c, VAdd(p_start, p_vector)) => ~p_ret
    /\ \A cap \in Caps(c) :
          EntersByCap(p_start, p_vector, c, cap) =>
              (p_ret /\ Dot(c.m_direction, VSub(p_hit.m_impact, cap.centre)) = Q0)

\* C21: Segment and Raycast against a finite Cylinder return false for a
\* probe whose far end is on or beyond either capping plane; a probe that
\* starts on or beyond a cap and ends strictly between the caps returns
\* true with the impact on that cap's plane whenever the point where it
\* crosses the plane is within the radius of the cap's centre.
C21_CylinderCaps ==
    shape.kind = "Cylinder" =>
        /\ Called("Segment") => CapReport(seg.m_ptA, GetAB(seg), shape.is, ret.seg, hit2)
        /\ Called("Raycast") => CapReport(ray.m_origin, RayVector(ray), shape.is, ret.ray, hit)

\* the first half of C21 alone: a far end on or beyond a cap is a miss
C21_FarEndBeyondCapMisses ==
    shape.kind = "Cylinder" =>
        /\ (Called("Segment") /\ ~BetweenCaps(shape.is, seg.m_ptB)) => ~ret.seg
        /\ (Called("Raycast") /\ ~BetweenCaps(shape.is, VAdd(ray.m_origin, RayVector(ray)))) => ~ret.ray


----------------------------------------------------------------------------
(* The areas of the swept-sphere test, under SpecSweep *)

\* what the expanded-box test of the call made: the raw hit
RawHit == SegmentAABB(seg, Expand(boxB, sphere.m_radius), IntersectionDefault)

\* the axes on which the point is outside [min, max] of the box
AxesOutside(p_aabb, p_pt) ==
    {i \in 1..3 : QLt(p_pt[i], p_aabb.m_min[i]) \/ QGt(p_pt[i], p_aabb.m_max[i])}

\* the branch that has to run for a raw impact outside the box on n axes
BranchOf(n) == CASE n = 3 -> "vertex" [] n = 2 -> "edge" [] n = 1 -> "face" [] OTHER -> "none"

\* C22: once the expanded-box test hits, exactly one branch runs: the
\* vertex branch iff the raw impact is outside [min, max] of the original
\* box on all three axes, the face branch iff it is outside on exactly one
\* axis, the edge branch iff it is outside on exactly two; u and v never
\* share a bit.
C22_BranchByAxesOutside ==
    (Called("IsMovingSphereColliding") /\ RawHit.ret) =>
        /\ region = BranchOf(Cardinality(AxesOutside(boxB, RawHit.hit.m_impact)))
        /\ \A k \in {1, 2, 4} :
               BitAnd(BelowBits(boxB, RawHit.hit.m_impact), k)
                   + BitAnd(AboveBits(boxB, RawHit.hit.m_impact), k) <= 1

\* the branch the code runs: the face branch also for a raw impact that is
\* outside the box on no axis
BranchRun(n) == IF n = 0 THEN "face" ELSE BranchOf(n)

\* C22 (as the code has it): the vertex branch iff the raw impact is outside
\* on all three axes, the edge branch iff on exactly two, the face branch
\* iff on at most one; u and v never share a bit.
C22_FaceBranchAlsoOnTheBox ==
    (Called("IsMovingSphereColliding") /\ RawHit.ret) =>
        /\ region = BranchRun(Cardinality(AxesOutside(boxB, RawHit.hit.m_impact)))
        /\ \A k \in {1, 2, 4} :
               BitAnd(BelowBits(boxB, RawHit.hit.m_impact), k)
                   + BitAnd(AboveBits(boxB, RawHit.hit.m_impact), k) <= 1

\* the same with a sphere of radius > 0
C22_PositiveRadius ==
    QGt(sphere.m_radius, Q0) => C22_BranchByAxesOutside


\* a point moved onto the box runs the face branch: its raw impact is on
\* the surface of the box, outside it on no axis
C22_Witness ==
    /\ sphere.m_radius = Q0
    /\ Called("IsMovingSphereColliding")
    /\ RawHit.ret
    /\ AxesOutside(boxB, RawHit.hit.m_impact) = {}
    /\ region = "face"
    /\ ret.sweep


\* the corner of the box nearest a point that is outside it on every axis
NearestCorner(p_aabb, p_pt) ==
    Members([i \in 1..3 |-> IF QGt(p_pt[i], p_aabb.m_max[i]) THEN p_aabb.m_max[i]
                                                              ELSE p_aabb.m_min[i]])

\* the corner at the other end of the edge along axis i
AlongEdge(p_aabb, p_corner, i) ==
    Members([j \in 1..3 |-> IF j # i THEN p_corner[j]
                             ELSE IF p_corner[j] = p_aabb.m_max[j] THEN p_aabb.m_min[j]
                             ELSE p_aabb.m_max[j]])

\* the capsule the vertex branch builds towards the corner v ^ p_bit
VertexCapsule(p_bit) ==
    CapsuleBetween(Corner(boxB, AboveBits(boxB, RawHit.hit.m_impact)),
                   Corner(boxB, BitXor(AboveBits(boxB, RawHit.hit.m_impact), p_bit)),
                   sphere.m_radius)

\* the centres of the two end spheres the capsule test gives a capsule:
\* pointP and pointQ
EndCentres(c) ==
    {VAdd(c.m_origin, VScale(c.m_direction, QDiv(c.m_height, Q2))),
     VSub(c.m_origin, VScale(c.m_direction, QDiv(c.m_height, Q2)))}

\* the three capsule tests of the vertex branch that hit
VertexHits ==
    {r \in {SegmentCapsule(seg, VertexCapsule(k), IntersectionDefault) : k \in {1, 2, 4}} : r.ret}

\* the call went through the vertex branch
InVertexRegion == Called("IsMovingSphereColliding") /\ region = "vertex"

\* C23, the capsules: in the vertex region each of the three candidate
\* capsules has its end spheres centred at the corner of the original box
\* nearest the raw impact and at one of the three corners that share an
\* edge with it, and the radius of the sphere.
C23_CapsulesAlongTheEdgesOfTheCorner ==
    InVertexRegion =>
        \A i \in 1..3 :
            /\ EndCentres(VertexCapsule(<<1, 2, 4>>[i]))
                   = {NearestCorner(boxB, RawHit.hit.m_impact),
                      AlongEdge(boxB, NearestCorner(boxB, RawHit.hit.m_impact), i)}
            /\ VertexCapsule(<<1, 2, 4>>[i]).m_radius = sphere.m_radius

\* C23, the choice: the result is the capsule hit with the smallest squared
\* distance from the origin of the sphere among the capsules that hit, and
\* false when none hits.
C23_NearestOfTheCapsuleHits ==
    InVertexRegion =>
        /\ ret.sweep <=> VertexHits # {}
        /\ ret.sweep =>
              /\ hit \in {r.hit : r \in VertexHits}
              /\ \A r \in VertexHits :
                     QLe(DistanceSqr(sphere.m_origin, hit.m_impact),
                         DistanceSqr(sphere.m_origin, r.hit.m_impact))

\* C23: in the vertex region of the swept-sphere test the three capsules
\* run from the corner of the original box nearest the raw impact to the
\* three corners that share an edge with it, with the radius of the sphere,
\* and the result is the nearest of their hits to the origin of the sphere,
\* false when none hits.
C23_VertexRegion == C23_CapsulesAlongTheEdgesOfTheCorner /\ C23_NearestOfTheCapsuleHits


\* the call went through the face branch
InFaceRegion == Called("IsMovingSphereColliding") /\ region = "face"

\* the point is in the box and on one of its six faces
OnSurface(p_aabb, p_pt) ==
    /\ InsideOrOn(p_aabb, p_pt)
    /\ \E i \in 1..3 : p_pt[i] = p_aabb.m_min[i] \/ p_pt[i] = p_aabb.m_max[i]

\* C24: in the face region the swept-sphere test returns true with the
\* impact at p_aabb.ClosestPoint(raw impact on the expanded box), the raw
\* impact clamped to the original box and so a point of its surface, and
\* with the normal the expanded-box test computed.
C24_FaceImpactIsClosestPoint ==
    InFaceRegion =>
        /\ ret.sweep
        /\ hit.m_impact = ClosestPoint(boxB, RawHit.hit.m_impact)
        /\ \A i \in 1..3 : hit.m_impact[i] = Clamped(boxB, RawHit.hit.m_impact, i)
        /\ OnSurface(boxB, hit.m_impact)
        /\ hit.m_normal = RawHit.hit.m_normal

\* a sphere of radius > 0 in the face region: the impact reported is off
\* the raw impact, the normal is the raw one
C24_Witness ==
    /\ InFaceRegion
    /\ QGt(sphere.m_radius, Q0)
    /\ ret.sweep
    /\ hit.m_impact # RawHit.hit.m_impact
    /\ OnSurface(boxB, hit.m_impact)
    /\ hit.m_normal = RawHit.hit.m_normal
    /\ hit.m_normal # Zero


----------------------------------------------------------------------------
(* The capsule built from two end points, under SpecProbe *)

\* the squared distance from a point to the segment from a to b (a # b)
SqrDistanceToAxis(p_pt, a, b) ==
    LET AtParameter(t) ==
            DistanceSqr(p_pt, VAdd(a, VScale(VSub(b, a), Max(Q0, Min(t, Q1)))))
    IN  AtParameter(QDiv(Dot(VSub(p_pt, a), VSub(b, a)), GetSqrMagnitude(VSub(b, a))))

\* the probe from p_start along p_vector starts outside the capsule of
\* radius r around the segment from a to b and ends strictly inside it
EntersCapsule(p_start, p_vector, a, b, r) ==
    /\ QGt(SqrDistanceToAxis(p_start, a, b), QMul(r, r))
    /\ QLt(SqrDistanceToAxis(VAdd(p_start, p_vector), a, b), QMul(r, r))

\* what the capsule test has to report for the probe from p_start along
\* p_vector against the capsule of radius r around the segment from a to b
CapsuleReport(p_start, p_vector, a, b, r, p_ret, p_hit) ==
    /\ EntersCapsule(p_start, p_vector, a, b, r) => p_ret
    /\ p_ret => QLe(SqrDistanceToAxis(p_hit.m_impact, a, b), QMul(r, r))

\* C25: Segment and Raycast treat a Capsule built as Capsule(a, b, r) as the
\* capsule whose end spheres of radius r are centred at a and at b: a probe
\* from outside that capsule to a point strictly inside it is a hit, and an
\* impact reported is no farther than r from the segment from a to b.
C25_CapsuleBetweenItsEndPoints ==
    shape = Shape("Capsule", ProbedCapsule) =>
        /\ Called("Segment") =>
              CapsuleReport(seg.m_ptA, GetAB(seg), CapsuleEndA, CapsuleEndB,
                            ProbedCapsule.m_radius, ret.seg, hit2)
        /\ Called("Raycast") =>
              CapsuleReport(ray.m_origin, RayVector(ray), CapsuleEndA, CapsuleEndB,
                            ProbedCapsule.m_radius, ret.ray, hit)


----------------------------------------------------------------------------
(* OBB::GetAABB as the broad phase of OBB::IsColliding, under SpecOBB *)

\* the AABB is centred at the origin of the OBB and contains its 8 vertices
BoundsItsVertices(o) ==
    /\ GetAABB(o).m_origin = o.m_origin
    /\ \A n \in 1..8 : Contains(GetAABB(o), OBB_GetVertices(o)[n])

\* the 15-axis test of OBB::IsColliding on its own: no unit vector of either
\* box and no cross product of two of them separates the boxes
FifteenAxes(o, p_other) ==
    LET UnitVectors(rotation) ==
            Members([i \in 1..3 |-> MatMulVec(rotation, <<Right, Up, Forward>>[i])])
        Axes(lhsVectors, rhsVectors) ==
            {lhsVectors[i] : i \in 1..3} \cup {rhsVectors[i] : i \in 1..3}
                \cup {Cross(lhsVectors[i], rhsVectors[j]) : i \in 1..3, j \in 1..3}
    IN  \A axis \in Axes(UnitVectors(Rotate(Euler(o.m_angle))),
                          UnitVectors(Rotate(Euler(p_other.m_angle)))) :
            IsOverlapping(SAT(axis, o), SAT(axis, p_other))

\* C26, the bound: for every OBB o, o.GetAABB() is centred at o.origin and
\* contains the 8 points of o.GetVertices(), at any position.
C26_GetAABBBoundsTheVertices ==
    Called("OBBIsColliding") => (BoundsItsVertices(obbA) /\ BoundsItsVertices(obbB))

\* C26, the broad phase: it never rejects a pair that the 15-axis test
\* reports as colliding.
C26_BroadPhaseKeepsColliding ==
    (Called("OBBIsColliding") /\ FifteenAxes(obbA, obbB)) => ret.collide

\* C26: for every OBB o, o.GetAABB() is an AABB centred at o.origin that
\* contains all 8 points of o.GetVertices(), negative coordinates included,
\* so the AABB broad phase of OBB::IsColliding never rejects a pair that the
\* 15-axis test would report as colliding.
C26_GetAABBIsABound == C26_GetAABBBoundsTheVertices /\ C26_BroadPhaseKeepsColliding

\* the centre alone: GetAABB is centred at the origin of the OBB
C26_GetAABBIsCentred ==
    Called("OBBIsColliding") =>
        (GetAABB(obbA).m_origin = obbA.m_origin /\ GetAABB(obbB).m_origin = obbB.m_origin)


----------------------------------------------------------------------------
(* The impact of a probe on an AABB, under SpecRayAABB *)

\* the point is start + t * vector for a t with 0 < t <= 1
OnProbe(p_start, p_vector, p_pt) ==
    \E i \in 1..3 :
        /\ p_vector[i] # Q0
        /\ QGt(QDiv(QSub(p_pt[i], p_start[i]), p_vector[i]), Q0)
        /\ QLe(QDiv(QSub(p_pt[i], p_start[i]), p_vector[i]), Q1)
        /\ p_pt = VAdd(p_start, VScale(p_vector, QDiv(QSub(p_pt[i], p_start[i]), p_vector[i])))

\* the probe is parallel to an axis (it does not move on axis i) and lies
\* outside the slab of the box on that axis
BesideTheBox(p_start, p_vector, p_aabb) ==
    /\ p_vector # Zero
    /\ \E i \in 1..3 :
           /\ p_vector[i] = Q0
           /\ QLt(p_start[i], p_aabb.m_min[i]) \/ QGt(p_start[i], p_aabb.m_max[i])

\* C27, the probe: whenever Segment or Raycast against an AABB returns
\* true, the impact is start + t * vector with 0 < t <= 1.
C27_ImpactOnTheProbe ==
    /\ (Called("SegmentAABB") /\ ret.seg) => OnProbe(seg.m_ptA, GetAB(seg), hit2.m_impact)
    /\ (Called("RaycastAABB") /\ ret.ray) => OnProbe(ray.m_origin, RayVector(ray), hit.m_impact)

\* C27, the box for the segment: its impact is inside or on the box, and a
\* segment beside the box is not a hit
C27_SegmentImpactOnTheBox ==
    Called("SegmentAABB") =>
        /\ ret.seg => InsideOrOn(boxB, hit2.m_impact)
        /\ BesideTheBox(seg.m_ptA, GetAB(seg), boxB) => ~ret.seg

\* C27, the box for the ray
C27_RayImpactOnTheBox ==
    Called("RaycastAABB") =>
        /\ ret.ray => InsideOrOn(boxB, hit.m_impact)
        /\ BesideTheBox(ray.m_origin, RayVector(ray), boxB) => ~ret.ray

\* C27: whenever Segment or Raycast against an AABB returns true, the
\* impact lies on the probe (start + t * vector with 0 < t <= 1) and inside
\* or on the box, also when the probe is parallel to one or two axes of the
\* box; a probe parallel to an axis that lies outside the slab of the box
\* on another axis is not reported as a hit.
C27_ImpactOnProbeAndBox ==
    C27_ImpactOnTheProbe /\ C27_SegmentImpactOnTheBox /\ C27_RayImpactOnTheBox


----------------------------------------------------------------------------
(* The impact of a probe on a finite cylinder, under SpecProbe *)

\* the signed coordinate of the point along the axis of the cylinder
AlongAxis(c, p_pt) == Dot(c.m_direction, VSub(p_pt, c.m_origin))

\* the point is between the caps, at most the radius away from the axis
OnFiniteCylinder(c, p_pt) ==
    /\ QGe(AlongAxis(c, p_pt), QNeg(QDiv(c.m_height, Q2)))
    /\ QLe(AlongAxis(c, p_pt), QDiv(c.m_height, Q2))
    /\ QLe(QSub(DistanceSqr(p_pt, c.m_origin), QMul(AlongAxis(c, p_pt), AlongAxis(c, p_pt))),
           QMul(c.m_radius, c.m_radius))

\* C28: whenever Segment or Raycast against a finite Cylinder returns true,
\* the impact lies on the finite cylinder: dot(direction, impact - origin)
\* is within [-height / 2, +height / 2] and the squared distance of the
\* impact from the axis is at most radius^2.
C28_ImpactOnTheFiniteCylinder ==
    shape.kind = "Cylinder" =>
        /\ (Called("Segment") /\ ret.seg) => OnFiniteCylinder(shape.is, hit2.m_impact)
        /\ (Called("Raycast") /\ ret.ray) => OnFiniteCylinder(shape.is, hit.m_impact)

\* the shallow ray against the cylinder whose upper cap is in the plane
\* y = 0: it goes through the infinite cylinder above that cap and crosses
\* the plane of the cap outside the disc
C28_ShallowRayMisses ==
    (shape = Shape("Cylinder", Cylinder(VecInt(0, -1, 0), Up, Q2, Q1)) /\ ray = ShallowRay) =>
        /\ Called("Segment") => ~ret.seg
        /\ Called("Raycast") => ~ret.ray


----------------------------------------------------------------------------
(* The Intersection after a miss, under SpecProbe *)

\* a call that returns false leaves its Intersection as it was
MissKeepsHit ==
    /\ (CallSegment /\ ~ret'.seg) => hit2' = hit2
    /\ (CallRaycast /\ ~ret'.ray) => hit' = hit

\* C29: whenever a Segment or Raycast IsIntersecting test (against a Plane,
\* Quad, AABB, OBB, Sphere, Cylinder, InfiniteCylinder or Capsule) returns
\* false, the Intersection argument holds the impact and the normal it held
\* before the call.
C29_MissLeavesIntersection == [][MissKeepsHit]_vars

\* the same for the classes whose test writes the Intersection only where
\* it returns true
C29_SimpleShapesKeepIntersection ==
    [][shape.kind \in {"Plane", "AABB", "OBB", "Sphere", "InfiniteCylinder"} => MissKeepsHit]_vars


----------------------------------------------------------------------------
(* SpecSegment: a segment copied and moved into a new segment, and         *)
(* assigned and move-assigned to an existing one                           *)

MaxEndPoint == 1

\* end points in the plane z = 0
EndPointSet == {VecInt(x, y, 0) : x \in -MaxEndPoint..MaxEndPoint, y \in -MaxEndPoint..MaxEndPoint}

InitSegment ==
    /\ boxA = AABBDefault
    /\ boxB = AABBDefault
    /\ point = Zero
    /\ obbA = OBBDefault
    /\ obbB = OBBDefault
    /\ ray = RaycastDefault
    /\ seg \in {Segment(a, b) : a \in EndPointSet, b \in EndPointSet}
    /\ sphere = SphereDefault
    /\ speed = Zero
    /\ NoCallYet

\* Segment copied(seg)
CallSegmentCopy ==
    /\ Return("SegmentCopy", "copied", SegmentCopy(seg))
    /\ UNCHANGED <<line, shape, rangeA, rangeB, boxA, boxB, point, obbA, obbB, ray, seg, sphere, speed, hit, hit2, region>>

\* Segment moved(std::move(seg)): seg keeps its floats
CallSegmentMove ==
    /\ Return("SegmentMove", "moved", SegmentMove(seg))
    /\ UNCHANGED <<line, shape, rangeA, rangeB, boxA, boxB, point, obbA, obbB, ray, seg, sphere, speed, hit, hit2, region>>

\* assigned = seg
CallSegmentAssign ==
    /\ Return("SegmentAssign", "assigned", SegmentAssign(seg))
    /\ UNCHANGED <<line, shape, rangeA, rangeB, boxA, boxB, point, obbA, obbB, ray, seg, sphere, speed, hit, hit2, region>>

\* moveAssigned = std::move(seg)
CallSegmentMoveAssign ==
    /\ Return("SegmentMoveAssign", "moveAssigned", SegmentMoveAssign(seg))
    /\ UNCHANGED <<line, shape, rangeA, rangeB, boxA, boxB, point, obbA, obbB, ray, seg, sphere, speed, hit, hit2, region>>

NextSegment ==
    CallSegmentCopy \/ CallSegmentMove \/ CallSegmentAssign \/ CallSegmentMoveAssign

SpecSegment == InitSegment /\ [][NextSegment]_vars

\* C30: a Segment that is copy-constructed or move-constructed has the ptA
\* and the ptB of its source, the value that copy assignment and move
\* assignment produce.
C30_ConstructedEqualsSource ==
    /\ Called("SegmentCopy") => (ret.copied.m_ptA = seg.m_ptA /\ ret.copied.m_ptB = seg.m_ptB)
    /\ Called("SegmentMove") => (ret.moved.m_ptA = seg.m_ptA /\ ret.moved.m_ptB = seg.m_ptB)
    /\ (Called("SegmentCopy") /\ Called("SegmentAssign")) => ret.copied = ret.assigned
    /\ (Called("SegmentMove") /\ Called("SegmentMoveAssign")) => ret.moved = ret.moveAssigned

\* the two assignments give the ptA and the ptB of the source
C30_AssignedEqualsSource ==
    /\ Called("SegmentAssign") => ret.assigned = seg
    /\ Called("SegmentMoveAssign") => ret.moveAssigned = seg

\* the two constructors give the ptA of the source, twice
C30_ConstructedFromPtA ==
    /\ Called("SegmentCopy") => ret.copied = Segment(seg.m_ptA, seg.m_ptA)
    /\ Called("SegmentMove") => ret.moved = Segment(seg.m_ptA, seg.m_ptA)

====
